---- MODULE Spec2Model ----
(***************************************************************************)
(* The audiobook processing pipeline of evocable: the gateway's submit and *)
(* delete handlers, the orchestrator (ProcessingPipeline) that polls the   *)
(* four completion lists, the four stage workers (ingest, segmenter, TTS   *)
(* worker, transcoder) and the storage service they call over HTTP.        *)
(*                                                                         *)
(* The orchestrator's DatabaseManager and the storage service both read    *)
(* and write the tables `books` and `chunks`; the model keeps one copy of  *)
(* each table: the system has one metadata store, the SQLite file that    *)
(* DATABASE_URL / DATABASE_PATH names for both services.                   *)
(*                                                                         *)
(* Redis lists: lpush appends at the left and rpop/brpop take from the     *)
(* right, so a list is a FIFO queue; here Append adds at the tail and Head *)
(* is the element the next pop returns.                                    *)
(***************************************************************************)
EXTENDS Integers, Sequences, FiniteSets, TLC

(***************************************************************************)
(* Bounds of the model.                                                    *)
(***************************************************************************)
\* how many books are ever submitted
MaxBooks == 2
\* how many completion envelopes the broker delivers a second time
MaxDup == 1
\* how many tasks that the gateway did not write are put on a task list
MaxMalformed == 1

\* create_book draws a fresh uuid for every book; the model numbers them.
BookIds == 1..MaxBooks

\* how many users have an account
MaxUsers == 2

\* The ids of the users (uuids in the code); NoUser is the id of no user.
Users == 1..MaxUsers
NoUser == 0

\* task.get("book_id", "unknown"): the id written into a failure envelope
\* when the task carries no book_id. It is the id of no book.
Unknown == 0

\* The workers, named by the prefix of their Redis lists.
Workers == {"ingest", "segment", "tts", "transcode"}

\* What an uploaded file turns out to be when the extractor reads it:
\*   ok      - the extractor returns text that has sentences
\*   blank   - the extractor returns text that is only whitespace
\*   empty   - the extractor returns "" (e.g. a PDF or EPUB without text)
\*   corrupt - the parser raises
SourceKinds == {"ok", "blank", "empty", "corrupt"}

\* Optional[...] parameters: None is the empty sequence, a value v is <<v>>.
None == << >>
Some(v) == <<v>>

VARIABLES
    books,        \* table books: id -> row (present = the row exists)
    chunks,       \* table chunks: book id -> set of seq registered
    used,         \* the uuids create_book has handed out
    toStart,      \* asyncio tasks created by submit_book, not yet run
    src,          \* book id -> what its uploaded file is (SourceKinds)
    textStored,   \* {TEXT_DATA_PATH}/{id}.txt: "none", "ok" or "blank"
    segStored,    \* {TEXT_DATA_PATH}/{id}/chunks/ holds the segments
    wavStored,    \* {WAV_DATA_PATH}/{id}/metadata.json and the WAVs exist
    queue,        \* worker -> its task list (ingest_queue, segment_queue, ...)
    completed,    \* worker -> its completion list (ingest_completed, ...)
    outbox,       \* worker -> the completion it has built and not yet pushed
    lastTask,     \* worker -> the local variable `task` of its loop
    opc,          \* the check _check_pipeline_progress runs next
    workOk,       \* history: book id -> stages whose own work succeeded
    execLog,      \* history: book id -> stages run for it, in order
    enqueued,     \* history: book id -> stages a task was ever pushed for
    applied,      \* history: worker -> completion envelopes already applied
    popped,       \* history: worker -> number of tasks popped
    emitted,      \* history: worker -> number of completions built
    dups,         \* number of envelopes delivered a second time
    malformed,    \* number of foreign tasks put on task lists
    shelf,        \* user -> number of rows of table books the user owns
    now,          \* the gateway's clock, int(time.time())
    tokens,       \* the JWTs create_session_token / create_reset_token issued
    urls,         \* the signed URLs generate_chunk_signed_url returned
    loggedOut,    \* history: the tokens /auth/logout was called with
    resetDone,    \* history: the tokens a password reset succeeded with
    userRows,     \* table users: the rows, each [id, username, email, password_hash, is_active]
    checked,      \* create_user calls that found no existing user and have not inserted yet
    lastReg,      \* history: the answer to the registration that completed last
    lastChange,   \* history: user id -> the old and new password of its last successful change
    brokerUp,     \* the Redis broker accepts commands
    transcoder,   \* the locals of the _transcode_book call in progress
    synth,        \* the chunk files of one book and the locals of the _process_book call of the TTS worker
    segmenter,    \* the locals of the segment_text call in progress and its result
    userq         \* the user operation and response lists and the gateway calls waiting on them

vars == <<books, chunks, used, toStart, src, textStored, segStored, wavStored,
          queue, completed, outbox, lastTask, opc, workOk, execLog, enqueued, applied,
          popped, emitted, dups, malformed, shelf, now, tokens, urls, loggedOut,
          resetDone, userRows, checked, lastReg, lastChange, brokerUp,
          transcoder, synth, segmenter, userq>>

\* The state of the gateway that the pipeline never touches.
gatewayVars == <<shelf, now, tokens, urls, loggedOut, resetDone, userRows, checked, lastReg,
          lastChange, brokerUp, transcoder, synth, segmenter, userq>>

\* The state of the user accounts and of the environment.
accountVars == <<resetDone, userRows, checked, lastReg, lastChange, brokerUp, transcoder,
          synth, segmenter, userq>>

\* The state of the pipeline and of the rows it works on.
pipelineVars ==
    <<books, chunks, used, toStart, src, textStored, segStored, wavStored,
      queue, completed, outbox, lastTask, opc, workOk, execLog, enqueued, applied,
      popped, emitted, dups, malformed>>

(***************************************************************************)
(* Rows and envelopes.                                                     *)
(***************************************************************************)
\* No row: every field at a fixed value so that the state is canonical.
NoRow ==
    [present |-> FALSE, user_id |-> NoUser, status |-> "pending",
     percent_complete |-> 0, error_message |-> None, total_chunks |-> 0]

\* BookService.create_book: the owner's user_id, status "pending", the
\* column defaults elsewhere.
NewRow(u) ==
    [present |-> TRUE, user_id |-> u, status |-> "pending",
     percent_complete |-> 0, error_message |-> None, total_chunks |-> 0]

\* A task on a task list. kind "task" is what the pipeline itself writes;
\* "nobook" is JSON without book_id, "nopath" an ingest task without
\* file_path, "badjson" a payload json.loads rejects.
Task(b) == [kind |-> "task", book_id |-> b]
Foreign(k, b) == [kind |-> k, book_id |-> b]

\* The local variable `task` of a worker loop: unbound until the first
\* json.loads succeeds, then the last task parsed.
Unbound == [bound |-> FALSE, book_id |-> Unknown]
Bound(b) == [bound |-> TRUE, book_id |-> b]

\* A completion envelope {book_id, success, error}.
Envelope(b, ok, err) == [book_id |-> b, success |-> ok, error |-> err]

\* An UPDATE without its WHERE clause: the status goes to every row.
UpdateBookStatusEveryRow(bk, book_id, status, percent_complete, error_message, total_chunks) ==
    [o \in BookIds |->
        IF bk[o].present THEN [bk[o] EXCEPT !.status = status] ELSE bk[o]]

\* An update that inserts the row when there is none (an upsert).
UpdateBookStatusUpsert(bk, book_id, status, percent_complete, error_message, total_chunks) ==
    IF book_id \in BookIds
    THEN [bk EXCEPT ![book_id] =
            [present |-> TRUE, user_id |-> bk[book_id].user_id, status |-> status,
             percent_complete |-> IF percent_complete # None
                                  THEN percent_complete[1] ELSE 0,
             error_message |-> error_message,
             total_chunks |-> IF total_chunks # None THEN total_chunks[1] ELSE 0]]
    ELSE bk

\* DatabaseManager.update_book_status: UPDATE books SET status = ?, and each
\* optional column only when its argument is not None, WHERE id = ?. No row
\* with that id: nothing changes.
UpdateBookStatus(bk, book_id, status, percent_complete, error_message, total_chunks) ==
    IF book_id \in BookIds /\ bk[book_id].present
    THEN [bk EXCEPT ![book_id] =
            [present |-> TRUE,
             user_id |-> bk[book_id].user_id,
             status |-> status,
             percent_complete |->
                IF percent_complete # None THEN percent_complete[1]
                ELSE bk[book_id].percent_complete,
             error_message |->
                IF error_message # None THEN error_message
                ELSE bk[book_id].error_message,
             total_chunks |->
                IF total_chunks # None THEN total_chunks[1]
                ELSE bk[book_id].total_chunks]]
    ELSE bk

(***************************************************************************)
(* User accounts.                                                          *)
(*                                                                         *)
(* The storage service owns table users; UserService works on it for the   *)
(* service's own HTTP endpoints and for the operations the gateway sends   *)
(* through user_operations_queue (UserOperationProcessor).                 *)
(***************************************************************************)
\* the most rows of table users
MaxAccounts == 3

\* the ids uuid4 hands out; 1 is the fixed id of the default admin
UserIds == 1..MaxAccounts

\* the names and addresses clients register with, and their passwords;
\* "weak" does not meet validate_password
Usernames == {"admin", "Bob", "bob"}
Emails == {"admin@example.com", "Bob@x.io", "bob@x.io"}
Passwords == {"Pw1!aaaa", "Pw2!aaaa", "weak"}

\* str.lower()
Lower(s) ==
    CASE s = "Bob" -> "bob"
      [] s = "Bob@x.io" -> "bob@x.io"
      [] OTHER -> s

\* validate_password of UserCreateRequest: upper case, lower case, digit and
\* special character, at least 8 characters
ValidPassword(p) == p # "weak"

\* pwd_context.hash and pwd_context.verify (bcrypt)
HashPassword(p) == <<"bcrypt", p>>
VerifyPassword(p, h) == h = HashPassword(p)

\* create_default_admin_user: the row init_database inserts at start-up.
AdminRow ==
    [id |-> 1, username |-> "admin", email |-> "admin@example.com",
     password_hash |-> HashPassword("Pw1!aaaa"), is_active |-> TRUE]

\* No registration has completed; no password was changed.
NoRegistration == [code |-> 0, detail |-> "", duplicate |-> FALSE]
NoChange == [changed |-> FALSE, old |-> "", new |-> ""]


\* The most gateway calls of the user service in progress at once.
MaxCallers == 3
Callers == 1..MaxCallers

\* The id of no operation.
NoOperation == 0

\* A gateway call of RedisUserService that has not started. operation_id
\* is the uuid4 of the call; the model gives caller c the id c.
IdleCaller ==
    [state |-> "idle", held |-> NoOperation, expired |-> FALSE,
     result |-> "none", response |-> NoOperation,
     answered |-> FALSE, missed |-> FALSE]

\* Both lists empty and no call in progress. A list is written left to
\* right: lpush adds at the left, brpop takes from the right.
IdleUserQueues ==
    [requests |-> << >>, responses |-> << >>,
     callers |-> [c \in Callers |-> IdleCaller]]

\* The segmenter before segment_text is called.
IdleSegmenter ==
    [state |-> "idle", sentences |-> << >>, next |-> 1, chunks |-> << >>,
     current_chunk |-> << >>, current_size |-> 0, starts |-> {},
     text_chunks |-> << >>]

\* The TTS worker before it has taken a task, for a book without chunk files.
IdleSynth ==
    [state |-> "idle", segments |-> {}, files |-> {}, listing |-> << >>,
     chunks_data |-> << >>, wavs |-> {}]

\* The transcoder before it has taken a task.
IdleTranscoder ==
    [state |-> "idle", wav_files |-> << >>, next |-> 1,
     transcoded_chunks |-> << >>, global_chunk_seq |-> 0]

Init ==
    /\ books = [b \in BookIds |-> NoRow]
    /\ chunks = [b \in BookIds |-> {}]
    /\ used = {}
    /\ toStart = {}
    /\ src = [b \in BookIds |-> "ok"]
    /\ textStored = [b \in BookIds |-> "none"]
    /\ segStored = [b \in BookIds |-> FALSE]
    /\ wavStored = [b \in BookIds |-> FALSE]
    /\ queue = [w \in Workers |-> << >>]
    /\ completed = [w \in Workers |-> << >>]
    /\ outbox = [w \in Workers |-> << >>]
    /\ lastTask = [w \in Workers |-> Unbound]
    /\ opc = "ingest"
    /\ workOk = [b \in BookIds |-> {}]
    /\ execLog = [b \in BookIds |-> << >>]
    /\ enqueued = [b \in BookIds |-> {}]
    /\ applied = [w \in Workers |-> {}]
    /\ popped = [w \in Workers |-> 0]
    /\ emitted = [w \in Workers |-> 0]
    /\ dups = 0
    /\ malformed = 0
    /\ shelf = [u \in Users |-> 0]
    /\ now = 0
    /\ tokens = {}
    /\ urls = {}
    /\ loggedOut = {}
    /\ resetDone = {}
    /\ userRows = {AdminRow}
    /\ checked = {}
    /\ lastReg = NoRegistration
    /\ lastChange = [i \in UserIds |-> NoChange]
    /\ brokerUp = TRUE
    /\ transcoder = IdleTranscoder
    /\ synth = IdleSynth
    /\ segmenter = IdleSegmenter
    /\ userq = IdleUserQueues

(***************************************************************************)
(* Redis list operations.                                                  *)
(***************************************************************************)
\* lpush(name, payload)
Push(q, w, x) == [q EXCEPT ![w] = Append(@, x)]
\* rpop(name) / brpop(name): the list after the pop
Pop(q, w) == [q EXCEPT ![w] = Tail(@)]

(***************************************************************************)
(* Gateway.                                                                *)
(***************************************************************************)
\* submit_book: create the row through the storage service (status pending),
\* write the upload, set the status to pending again, and create the asyncio
\* task that will run pipeline.start_processing.
SubmitBook(u, b, kind) ==
    /\ b \notin used
    /\ b = Cardinality(used) + 1
    /\ used' = used \cup {b}
    /\ books' = [books EXCEPT ![b] = NewRow(u)]
    /\ src' = [src EXCEPT ![b] = kind]
    /\ toStart' = toStart \cup {b}
    /\ UNCHANGED <<chunks, textStored, segStored, wavStored, queue, completed,
                   outbox, lastTask, opc, workOk, execLog, enqueued, applied, popped,
                   emitted, dups, malformed>>
    /\ UNCHANGED gatewayVars

\* The except branch of start_processing: status "failed" with the error
\* message "Failed to start processing: ...".
StartProcessingFailed(bk, b) ==
    UpdateBookStatus(bk, b, "failed", None, Some("Failed to start processing"), None)

\* ProcessingPipeline.start_processing with _trigger_ingest: status
\* "processing" at 5 percent, then "extracting" at 10 percent, then the
\* ingest task is pushed. The coroutine has no suspension point, and the
\* second update overwrites the first. When lpush raises (the broker is
\* down) _trigger_ingest re-raises and start_processing sets the status to
\* "failed"; the asyncio task ends and nothing pushes the task later.
StartProcessing(b) ==
    /\ b \in toStart
    /\ toStart' = toStart \ {b}
    /\ LET bk1 == UpdateBookStatus(books, b, "processing", Some(5), None, None)
           bk2 == UpdateBookStatus(bk1, b, "extracting", Some(10), None, None)
       IN IF brokerUp
          THEN /\ books' = bk2
               /\ queue' = Push(queue, "ingest", Task(b))
               /\ enqueued' = [enqueued EXCEPT ![b] = @ \cup {"ingest"}]
          ELSE /\ books' = StartProcessingFailed(bk2, b)
               /\ UNCHANGED <<queue, enqueued>>
    /\ UNCHANGED <<chunks, used, src, textStored, segStored, wavStored,
                   completed, outbox, lastTask, opc, workOk, execLog, applied,
                   popped, emitted, dups, malformed>>
    /\ UNCHANGED gatewayVars

\* A lookup that does not filter on the owner.
GetBookByIdAnyOwner(bk, b, u) ==
    IF b \in BookIds /\ bk[b].present THEN Some(bk[b]) ELSE None

\* BookService.get_book_by_id(book_id, user_id) of the storage service, as
\* the gateway calls it: the row with that id and that owner, or nothing.
\* The gateway always passes the authenticated user's id, which is not empty.
GetBookById(bk, b, u) ==
    IF b \in BookIds /\ bk[b].present /\ bk[b].user_id = u
    THEN Some(bk[b]) ELSE None

\* delete_book as user u: 404 unless the row exists and is u's; the storage
\* service deletes the row; the DELETE of the audio chunks is attempted and its failure ignored;
\* the directories /data/text/{id} and /data/wav/{id} are removed (the text
\* artifact /data/text/{id}.txt is a sibling of the directory and stays).
DeleteBook(u, b) ==
    /\ GetBookById(books, b, u) # None
    /\ books' = [books EXCEPT ![b] = NoRow]
    /\ segStored' = [segStored EXCEPT ![b] = FALSE]
    /\ wavStored' = [wavStored EXCEPT ![b] = FALSE]
    /\ UNCHANGED <<chunks, used, toStart, src, textStored, queue, completed,
                   outbox, lastTask, opc, workOk, execLog, enqueued, applied, popped,
                   emitted, dups, malformed>>
    /\ UNCHANGED gatewayVars

(***************************************************************************)
(* Storage service.                                                        *)
(***************************************************************************)
\* A store_book_text that inserts a row when there is none.
StoreBookTextCreates(bk, b) ==
    IF bk[b].present THEN [bk EXCEPT ![b].status = "text_extracted"]
    ELSE [bk EXCEPT ![b] =
            [NewRow(CHOOSE u \in Users : TRUE) EXCEPT !.status = "text_extracted"]]

\* store_book_text: after writing {id}.txt, the book row, if there is one,
\* gets status "text_extracted".
StoreBookText(bk, b) ==
    IF bk[b].present THEN [bk EXCEPT ![b].status = "text_extracted"] ELSE bk

\* storage/main.py imports User, Book and AudioChunk from database_models;
\* the handlers of the audio-chunk registry use the name Chunk, which no
\* statement of the module binds.
ChunkIsBound == FALSE

\* store_audio_chunks(book_id, posted): delete the book's chunks, add the
\* posted ones, commit, and set the book's status to "completed"; any
\* exception (the NameError on Chunk is one) is answered with 500 and the
\* tables are left as they were.
StoreAudioChunks(bk, ch, b, posted) ==
    IF ChunkIsBound
    THEN [code |-> 200,
          chunks |-> [ch EXCEPT ![b] = posted],
          books |-> IF bk[b].present
                    THEN [bk EXCEPT ![b].status = "completed"] ELSE bk]
    ELSE [code |-> 500, chunks |-> ch, books |-> bk]

(***************************************************************************)
(* Ingest worker (extractor).                                              *)
(***************************************************************************)
\* The ExtractionResult of the extractor chosen by the file's suffix
\* (with_error_handling turns an exception into success = False with
\* error = str(e)); text is "none" when there is no text.
ExtractionResult(kind) ==
    CASE kind = "corrupt" ->
            [success |-> FALSE, text |-> "none", error |-> Some("parser error")]
      [] kind = "empty" ->
            [success |-> TRUE, text |-> "empty", error |-> None]
      [] OTHER ->
            [success |-> TRUE, text |-> kind, error |-> None]

\* The condition with its test dropped: the text is stored and the segment
\* task pushed whatever the extractor returned.
StoresAndTriggersAlways(r) == TRUE

\* `result.success and result.text`: "" is falsy.
StoresAndTriggers(r) == r.success /\ r.text \notin {"none", "empty"}

\* The except branch of a worker loop: the failure envelope is built from
\* the variable `task`; when json.loads raised in the first iteration the
\* name is unbound, the NameError is swallowed by `except: pass` and nothing
\* is pushed; in a later iteration `task` is still the previous task.
ExceptEnvelope(t, msg) ==
    IF t.bound THEN <<Envelope(t.book_id, FALSE, Some(msg))>> ELSE << >>

\* process_ingest_queue, from brpop to the point where the completion
\* envelope is built: json.loads, extract_text (which stores the text and
\* pushes the segment task when the result is a success with text).
IngestPop ==
    /\ outbox["ingest"] = << >>
    /\ queue["ingest"] # << >>
    /\ popped' = [popped EXCEPT !["ingest"] = @ + 1]
    /\ LET t == Head(queue["ingest"])
           b == t.book_id
       IN CASE t.kind = "badjson" ->
                 /\ outbox' = [outbox EXCEPT !["ingest"] =
                                  ExceptEnvelope(lastTask["ingest"], "json error")]
                 /\ queue' = Pop(queue, "ingest")
                 /\ UNCHANGED <<books, textStored, lastTask, workOk, execLog,
                                enqueued>>
            [] t.kind \in {"nobook", "nopath"} ->
                 \* `if book_id and file_path:` has no else branch
                 /\ lastTask' = [lastTask EXCEPT !["ingest"] = Bound(b)]
                 /\ queue' = Pop(queue, "ingest")
                 /\ UNCHANGED <<books, textStored, outbox, workOk, execLog,
                                enqueued>>
            [] OTHER ->
                 LET r == ExtractionResult(src[b])
                     go == StoresAndTriggers(r)
                 IN /\ lastTask' = [lastTask EXCEPT !["ingest"] = Bound(b)]
                    /\ textStored' = IF go THEN [textStored EXCEPT ![b] = r.text]
                                     ELSE textStored
                    /\ books' = IF go THEN StoreBookText(books, b) ELSE books
                    /\ queue' = IF go
                                THEN Push(Pop(queue, "ingest"), "segment", Task(b))
                                ELSE Pop(queue, "ingest")
                    /\ enqueued' = IF go
                                   THEN [enqueued EXCEPT ![b] = @ \cup {"segment"}]
                                   ELSE enqueued
                    /\ outbox' = [outbox EXCEPT !["ingest"] =
                                     <<Envelope(b, r.success, r.error)>>]
                    /\ execLog' = [execLog EXCEPT ![b] = Append(@, "ingest")]
                    /\ workOk' = IF r.success
                                 THEN [workOk EXCEPT ![b] = @ \cup {"ingest"}]
                                 ELSE workOk
    /\ UNCHANGED <<chunks, used, toStart, src, segStored, wavStored, completed,
                   opc, applied, emitted, dups, malformed>>
    /\ UNCHANGED gatewayVars

\* The lpush of the completion envelope onto the worker's completion list.
PushCompletion(w) ==
    /\ outbox[w] # << >>
    /\ completed' = Push(completed, w, outbox[w][1])
    /\ outbox' = [outbox EXCEPT ![w] = << >>]
    /\ emitted' = [emitted EXCEPT ![w] = @ + 1]
    /\ UNCHANGED <<books, chunks, used, toStart, src, textStored, segStored,
                   wavStored, queue, lastTask, opc, workOk, execLog, enqueued,
                   applied, popped, dups, malformed>>
    /\ UNCHANGED gatewayVars

IngestPush == PushCompletion("ingest")

(***************************************************************************)
(* Segmenter, TTS worker and transcoder.                                   *)
(***************************************************************************)
\* The part the three loops share: brpop, json.loads, `if book_id:`, the
\* call of the book's processing, and the completion envelope
\* {book_id, success, error: None if success else failure_text}.
\* `success` is the value the processing returns for the task's book.
WorkerPop(w, success, failure_text) ==
    /\ outbox[w] = << >>
    /\ queue[w] # << >>
    /\ popped' = [popped EXCEPT ![w] = @ + 1]
    /\ LET t == Head(queue[w])
           b == t.book_id
       IN CASE t.kind = "badjson" ->
                 /\ outbox' = [outbox EXCEPT ![w] =
                                  ExceptEnvelope(lastTask[w], "json error")]
                 /\ UNCHANGED <<lastTask, execLog>>
            [] t.kind = "nobook" ->
                 \* `if book_id:` has no else branch
                 /\ lastTask' = [lastTask EXCEPT ![w] = Bound(b)]
                 /\ UNCHANGED <<outbox, execLog>>
            [] OTHER ->
                 /\ lastTask' = [lastTask EXCEPT ![w] = Bound(b)]
                 /\ outbox' = [outbox EXCEPT ![w] =
                       <<Envelope(b, success,
                                  IF success THEN None ELSE Some(failure_text))>>]
                 /\ execLog' = [execLog EXCEPT ![b] = Append(@, w)]

\* Whether the head of a worker's list is a task the worker processes.
HeadIsTask(w) == queue[w] # << >> /\ Head(queue[w]).kind = "task"
HeadBook(w) == Head(queue[w]).book_id

\* SegmentationProcessor._process_book: the text is fetched from the storage
\* service (404 -> None -> False); segment_text of text without a sentence
\* returns no chunk (-> False); otherwise the chunks are stored and the TTS
\* task is pushed.
SegmentProcessBook(b) == textStored[b] = "ok"

SegmentPop ==
    LET run == HeadIsTask("segment")
        ok == run /\ SegmentProcessBook(HeadBook("segment"))
    IN /\ WorkerPop("segment", ok, "Segmentation failed")
       /\ segStored' = IF ok THEN [segStored EXCEPT ![HeadBook("segment")] = TRUE]
                       ELSE segStored
       /\ queue' = IF ok
                   THEN Push(Pop(queue, "segment"), "tts", Task(HeadBook("segment")))
                   ELSE Pop(queue, "segment")
       /\ enqueued' = IF ok
                      THEN [enqueued EXCEPT ![HeadBook("segment")] = @ \cup {"tts"}]
                      ELSE enqueued
       /\ workOk' = IF ok
                    THEN [workOk EXCEPT ![HeadBook("segment")] = @ \cup {"segment"}]
                    ELSE workOk
       /\ UNCHANGED <<books, chunks, used, toStart, src, textStored, wavStored,
                      completed, opc, applied, emitted, dups, malformed>>
       /\ UNCHANGED gatewayVars

SegmentPush == PushCompletion("segment")

\* TTSWorker._process_book: the segments are read from the chunks directory
\* (missing or empty -> False); one failed synthesis -> False, before
\* anything is saved; otherwise the WAVs and metadata.json are written and
\* the transcode task is pushed. synth_ok: every synthesis succeeded.
TtsProcessBook(b, synth_ok) == segStored[b] /\ synth_ok

TtsPop ==
    \E synth_ok \in BOOLEAN :
        LET run == HeadIsTask("tts")
            ok == run /\ TtsProcessBook(HeadBook("tts"), synth_ok)
        IN /\ WorkerPop("tts", ok, "TTS generation failed")
           /\ wavStored' = IF ok THEN [wavStored EXCEPT ![HeadBook("tts")] = TRUE]
                           ELSE wavStored
           /\ queue' = IF ok
                       THEN Push(Pop(queue, "tts"), "transcode", Task(HeadBook("tts")))
                       ELSE Pop(queue, "tts")
           /\ enqueued' = IF ok
                          THEN [enqueued EXCEPT ![HeadBook("tts")] = @ \cup {"transcode"}]
                          ELSE enqueued
           /\ workOk' = IF ok
                        THEN [workOk EXCEPT ![HeadBook("tts")] = @ \cup {"tts"}]
                        ELSE workOk
           /\ UNCHANGED <<books, chunks, used, toStart, src, textStored, segStored,
                          completed, opc, applied, emitted, dups, malformed>>
           /\ UNCHANGED gatewayVars

TtsPush == PushCompletion("tts")

\* The most Ogg chunks the transcoder cuts one book into.
MaxChunks == 2

\* AudioTranscoder._transcode_book: the WAV manifest is fetched (404 -> no
\* files -> False); every WAV is cut and encoded (one ffmpeg failure ->
\* False); the chunk list is posted to the storage service, and any answer
\* other than 200 raises, which _transcode_book turns into False.
\* encoded: ffmpeg succeeded for every segment; post: the storage answer.
TranscodeBook(b, encoded, post) == wavStored[b] /\ encoded /\ post.code = 200

TranscodePop ==
    \E encoded \in BOOLEAN, n \in 1..MaxChunks :
        LET run == HeadIsTask("transcode")
            b == HeadBook("transcode")
            posts == run /\ wavStored[b] /\ encoded
            post == IF posts
                    THEN StoreAudioChunks(books, chunks, b, 0..(n - 1))
                    ELSE [code |-> 0, chunks |-> chunks, books |-> books]
            ok == run /\ TranscodeBook(b, encoded, post)
        IN /\ WorkerPop("transcode", ok, "Transcoding failed")
           /\ books' = post.books
           /\ chunks' = post.chunks
           /\ queue' = Pop(queue, "transcode")
           /\ workOk' = IF posts
                        THEN [workOk EXCEPT ![b] = @ \cup {"transcode"}]
                        ELSE workOk
           /\ UNCHANGED <<used, toStart, src, textStored, segStored, wavStored,
                          completed, opc, enqueued, applied, emitted, dups,
                          malformed>>
           /\ UNCHANGED gatewayVars

TranscodePush == PushCompletion("transcode")

(***************************************************************************)
(* Orchestrator (ProcessingPipeline).                                      *)
(***************************************************************************)
\* A monitor that polls the first completion list only.
NextCheckFirstOnly(w) == "ingest"

\* _check_pipeline_progress runs the four checks in this order, then
\* monitor_progress sleeps and starts over.
NextCheck(w) ==
    CASE w = "ingest" -> "segment"
      [] w = "segment" -> "tts"
      [] w = "tts" -> "transcode"
      [] OTHER -> "ingest"

\* The update a check makes for an envelope that reports success: the
\* stage's next status and its percent. For the transcode envelope,
\* total_chunks = task_data.get("total_chunks", 0) and the chunk rows come
\* from task_data.get("chunks", []); the transcoder's envelope has neither
\* key, so total_chunks is written as 0 and no chunk row is created.
ApplySuccess(bk, w, book_id) ==
    CASE w = "ingest" ->
            UpdateBookStatus(bk, book_id, "segmenting", Some(25), None, None)
      [] w = "segment" ->
            UpdateBookStatus(bk, book_id, "generating_audio", Some(50), None, None)
      [] w = "tts" ->
            UpdateBookStatus(bk, book_id, "transcoding", Some(75), None, None)
      [] OTHER ->
            UpdateBookStatus(bk, book_id, "completed", Some(100), None, Some(0))

\* A failure update that writes the status only.
ApplyFailureStatusOnly(bk, book_id, error) ==
    UpdateBookStatus(bk, book_id, "failed", None, None, None)

\* The update for an envelope that reports failure: status "failed" and
\* error_message = task_data.get("error", default); an error of None leaves
\* the column as it is.
ApplyFailure(bk, book_id, error) ==
    UpdateBookStatus(bk, book_id, "failed", None, error, None)

ApplyCompletion(bk, w, env) ==
    IF env.success THEN ApplySuccess(bk, w, env.book_id)
    ELSE ApplyFailure(bk, env.book_id, env.error)

\* One _check_*_completion: rpop the list; when it returned an envelope,
\* apply it; then the next check's turn.
CheckCompletion(w) ==
    /\ opc = w
    /\ opc' = NextCheck(w)
    /\ IF completed[w] # << >>
       THEN /\ books' = ApplyCompletion(books, w, Head(completed[w]))
            /\ completed' = Pop(completed, w)
            /\ applied' = [applied EXCEPT ![w] = @ \cup {Head(completed[w])}]
       ELSE UNCHANGED <<books, completed, applied>>
    /\ UNCHANGED <<chunks, used, toStart, src, textStored, segStored, wavStored,
                   queue, outbox, lastTask, workOk, execLog, enqueued, popped,
                   emitted, dups, malformed>>
    /\ UNCHANGED gatewayVars

CheckIngestCompletion == CheckCompletion("ingest")
CheckSegmentationCompletion == CheckCompletion("segment")
CheckTtsCompletion == CheckCompletion("tts")
CheckTranscodingCompletion == CheckCompletion("transcode")

(***************************************************************************)
(* Status endpoint.                                                        *)
(***************************************************************************)
\* The statuses of the enum BookStatus.
BookStatusValues ==
    {"pending", "processing", "extracting", "segmenting", "generating_audio",
     "transcoding", "completed", "failed"}

\* get_audio_chunks of the storage service: 500 while Chunk is unbound,
\* otherwise 200 with total_chunks = the number of rows.
GetAudioChunks(ch, b) ==
    IF ChunkIsBound THEN [code |-> 200, total_chunks |-> Cardinality(ch[b])]
    ELSE [code |-> 500, total_chunks |-> 0]

\* The 404 of the gateway's book handlers: raised when get_book_by_id
\* returned nothing, with the detail "Book with ID {book_id} not found or
\* access denied".
NotFound(b) ==
    [code |-> 404, detail |-> <<"Book not found or access denied", b>>]

\* get_book_status as user u: 404 when get_book_by_id(book_id, u) returns
\* nothing; BookStatus(book["status"]) raises for a status outside the enum,
\* answered with 500; percent_complete is the literal 0.0 and error_message
\* the literal None; total_chunks is the registry's count for a completed
\* book (None when the registry does not answer 200), else the row's
\* total_chunks when that is positive, else None.
GetBookStatus(u, b) ==
    IF GetBookById(books, b, u) = None
    THEN [code |-> 404, detail |-> NotFound(b).detail, status |-> "",
          percent_complete |-> 0, error_message |-> None, total_chunks |-> None]
    ELSE IF books[b].status \notin BookStatusValues
    THEN [code |-> 500, detail |-> <<"Failed to get book status", b>>,
          status |-> "", percent_complete |-> 0,
          error_message |-> None, total_chunks |-> None]
    ELSE [code |-> 200,
          detail |-> << >>,
          status |-> books[b].status,
          percent_complete |-> 0,
          error_message |-> None,
          total_chunks |->
             IF books[b].status = "completed"
             THEN (IF GetAudioChunks(chunks, b).code = 200
                   THEN Some(GetAudioChunks(chunks, b).total_chunks) ELSE None)
             ELSE IF books[b].total_chunks > 0
                  THEN Some(books[b].total_chunks) ELSE None]

\* list_book_chunks as user u: 404 when get_book_by_id returns nothing;
\* otherwise the registry is asked, and an answer other than 200 or 404
\* becomes a 500.
ListBookChunks(u, b) ==
    IF GetBookById(books, b, u) = None
    THEN [code |-> 404, detail |-> NotFound(b).detail, total_chunks |-> 0]
    ELSE IF GetAudioChunks(chunks, b).code = 200
    THEN [code |-> 200, detail |-> << >>,
          total_chunks |-> GetAudioChunks(chunks, b).total_chunks]
    ELSE [code |-> 500, detail |-> <<"Failed to get chunks from storage service", b>>,
          total_chunks |-> 0]

\* The answer of generate_chunk_signed_url as user u: 404 when
\* get_book_by_id returns nothing, otherwise 200 with a signed URL.
SignedUrlResponse(u, b) ==
    IF GetBookById(books, b, u) = None
    THEN [code |-> 404, detail |-> NotFound(b).detail]
    ELSE [code |-> 200, detail |-> << >>]

\* The answer of DELETE /api/v1/books/{id} as user u: 404 when
\* get_book_by_id returns nothing, otherwise the row is deleted and the
\* answer is 200.
DeleteBookResponse(u, b) ==
    IF GetBookById(books, b, u) = None
    THEN [code |-> 404, detail |-> NotFound(b).detail]
    ELSE [code |-> 200, detail |-> << >>]

(***************************************************************************)
(* Listing books.                                                          *)
(*                                                                         *)
(* The listing depends only on who owns a row and on the order in which    *)
(* the rows were created, so the listing specification keeps, per user,    *)
(* the number of rows the user owns (shelf); row k of a user is the k-th   *)
(* oldest of that user's rows.                                             *)
(***************************************************************************)
\* the most rows one user owns
MaxShelf == 101

\* per_page=100, the page size the gateway's list_books asks for
PerPage == 100

\* BookService.create_book for user u, as far as the table's rows go.
CreateBookRow(u) ==
    /\ shelf[u] < MaxShelf
    /\ shelf' = [shelf EXCEPT ![u] = @ + 1]
    /\ UNCHANGED <<now, tokens, urls, loggedOut>>
    /\ UNCHANGED accountVars
    /\ UNCHANGED pipelineVars

\* BookService.delete_book of one of u's rows.
DeleteBookRow(u) ==
    /\ shelf[u] > 0
    /\ shelf' = [shelf EXCEPT ![u] = @ - 1]
    /\ UNCHANGED <<now, tokens, urls, loggedOut>>
    /\ UNCHANGED accountVars
    /\ UNCHANGED pipelineVars

\* BookService.list_books(user_id, page, per_page) of the storage service:
\* the rows of that user, newest first, from offset (page - 1) * per_page,
\* at most per_page of them. The i-th newest row of u is row shelf[u] - i + 1.
StorageListBooks(u, page, per_page) ==
    LET offset == (page - 1) * per_page
        last == IF offset + per_page < shelf[u] THEN offset + per_page ELSE shelf[u]
    IN {<<u, shelf[u] - i + 1>> : i \in (offset + 1)..last}

\* list_books of the gateway as user u: page 1 with per_page = 100; the
\* handler takes no page parameter.
ListBooks(u) == StorageListBooks(u, 1, PerPage)

(***************************************************************************)
(* The broker and foreign writers.                                         *)
(***************************************************************************)
\* At-least-once delivery: an envelope the orchestrator has already applied
\* is delivered once more.
Redeliver(w, env) ==
    /\ dups < MaxDup
    /\ env \in applied[w]
    /\ dups' = dups + 1
    /\ completed' = Push(completed, w, env)
    /\ UNCHANGED <<books, chunks, used, toStart, src, textStored, segStored,
                   wavStored, queue, outbox, lastTask, opc, workOk, execLog,
                   enqueued, applied, popped, emitted, malformed>>
    /\ UNCHANGED gatewayVars

\* A payload that the pipeline did not write arrives on a task list: JSON
\* without book_id, an ingest task without file_path, or text that is not
\* JSON.
ForeignKinds(w) ==
    IF w = "ingest" THEN {"nobook", "nopath", "badjson"} ELSE {"nobook", "badjson"}

PushForeign(w, k, b) ==
    /\ malformed < MaxMalformed
    /\ k \in ForeignKinds(w)
    /\ b = IF k = "nopath" THEN 1 ELSE Unknown
    /\ malformed' = malformed + 1
    /\ queue' = Push(queue, w, Foreign(k, b))
    /\ UNCHANGED <<books, chunks, used, toStart, src, textStored, segStored,
                   wavStored, completed, outbox, lastTask, opc, workOk, execLog,
                   enqueued, applied, popped, emitted, dups>>
    /\ UNCHANGED gatewayVars

(***************************************************************************)
(* Specifications.                                                         *)
(***************************************************************************)
\* The steps of the workers and of the orchestrator.
Pipeline ==
    \/ IngestPop
    \/ IngestPush
    \/ SegmentPop
    \/ SegmentPush
    \/ TtsPop
    \/ TtsPush
    \/ TranscodePop
    \/ TranscodePush
    \/ CheckIngestCompletion
    \/ CheckSegmentationCompletion
    \/ CheckTtsCompletion
    \/ CheckTranscodingCompletion

\* The user whose books the pipeline specifications follow.
FirstUser == 1

\* The pipeline as the repository's processes drive it, for the books of one
\* user.
Next ==
    \/ \E b \in BookIds, kind \in SourceKinds : SubmitBook(FirstUser, b, kind)
    \/ \E b \in BookIds : StartProcessing(b)
    \/ \E b \in BookIds : DeleteBook(FirstUser, b)
    \/ Pipeline

Spec == Init /\ [][Next]_vars

\* Submissions and the pipeline, with a broker that delivers a completion
\* envelope again.
NextDup ==
    \/ \E b \in BookIds, kind \in {"ok", "corrupt"} : SubmitBook(FirstUser, b, kind)
    \/ \E b \in BookIds : StartProcessing(b)
    \/ Pipeline
    \/ \E w \in Workers : \E env \in applied[w] : Redeliver(w, env)

SpecDup == Init /\ [][NextDup]_vars

\* One submission (of a file that extracts well) and the pipeline, with
\* payloads on the task lists that the pipeline did not write.
NextForeign ==
    \/ SubmitBook(FirstUser, 1, "ok")
    \/ \E b \in BookIds : StartProcessing(b)
    \/ Pipeline
    \/ \E w \in Workers, k \in {"nobook", "nopath", "badjson"}, b \in {Unknown, 1} :
          PushForeign(w, k, b)

SpecForeign == Init /\ [][NextForeign]_vars

\* The pipeline for the books of several users, each of whom may ask for
\* any book id.
NextOwn ==
    \/ \E u \in Users, b \in BookIds : SubmitBook(u, b, "ok")
    \/ \E b \in BookIds : StartProcessing(b)
    \/ \E u \in Users, b \in BookIds : DeleteBook(u, b)
    \/ Pipeline

SpecOwn == Init /\ [][NextOwn]_vars

\* The broker stops accepting commands, at a moment when no worker is
\* between its pop and its push, and later accepts them again.
BrokerStops ==
    /\ brokerUp
    /\ \A w \in Workers : outbox[w] = << >>
    /\ brokerUp' = FALSE
    /\ UNCHANGED <<userRows, checked, lastReg, lastChange, resetDone, transcoder, synth, segmenter, userq>>
    /\ UNCHANGED <<shelf, now, tokens, urls, loggedOut>>
    /\ UNCHANGED pipelineVars

BrokerReturns ==
    /\ ~brokerUp
    /\ brokerUp' = TRUE
    /\ UNCHANGED <<userRows, checked, lastReg, lastChange, resetDone, transcoder, synth, segmenter, userq>>
    /\ UNCHANGED <<shelf, now, tokens, urls, loggedOut>>
    /\ UNCHANGED pipelineVars

\* Submissions and the pipeline with a broker that comes and goes; while it
\* is down every brpop, rpop and lpush of the workers and of the
\* orchestrator raises and their loops retry.
NextBroker ==
    \/ \E b \in BookIds : SubmitBook(FirstUser, b, "ok")
    \/ \E b \in BookIds : StartProcessing(b)
    \/ brokerUp /\ Pipeline
    \/ BrokerStops
    \/ BrokerReturns

SpecBroker == Init /\ [][NextBroker]_vars

\* Text that json.loads rejects, on a completion list. The check that pops
\* it logs the error inside its own try block and writes no row, which is
\* what applying an envelope for the id of no book does.
Unparsable == Envelope(Unknown, FALSE, Some("not json"))

PushUnparsable(w) ==
    /\ malformed < MaxMalformed
    /\ malformed' = malformed + 1
    /\ completed' = Push(completed, w, Unparsable)
    /\ UNCHANGED <<books, chunks, used, toStart, src, textStored, segStored,
                   wavStored, queue, outbox, lastTask, opc, workOk, execLog,
                   enqueued, applied, popped, emitted, dups>>
    /\ UNCHANGED gatewayVars

\* One submission and the pipeline, with text that is not JSON on the
\* completion lists, and an orchestrator whose monitor_progress loop keeps
\* running: `while True` with a sleep, every exception caught.
NextMonitor ==
    \/ \E kind \in {"ok", "corrupt"} : SubmitBook(FirstUser, 1, kind)
    \/ \E b \in BookIds : StartProcessing(b)
    \/ Pipeline
    \/ \E w \in Workers : PushUnparsable(w)

SpecMonitor ==
    /\ Init
    /\ [][NextMonitor]_vars
    /\ \A w \in Workers : WF_vars(CheckCompletion(w))

\* Users creating and deleting book rows.
NextList ==
    \/ \E u \in Users : CreateBookRow(u)
    \/ \E u \in Users : DeleteBookRow(u)

SpecList == Init /\ [][NextList]_vars

(***************************************************************************)
(* Tokens, signed URLs and the chunk-streaming endpoint.                   *)
(*                                                                         *)
(* A JWT is kept as its payload; a token is in `tokens` exactly when the   *)
(* gateway signed it with its secret key. Time is in whole seconds, as     *)
(* int(time.time()) and the exp comparison of jwt.decode see it.           *)
(***************************************************************************)
\* default_expiry_hours = 24, in seconds
SessionExpiry == 24 * 3600

\* remember_expiry_hours = 24 * 30, in seconds
RememberExpiry == 24 * 30 * 3600

\* password_reset_expiry_minutes, default "15", in seconds
ResetExpiry == 15 * 60

\* expires_in: int = Query(3600) of generate_chunk_signed_url
DefaultExpiresIn == 3600

\* the most tokens login and forgot-password issue
MaxTokens == 2

\* the most signed URLs issued
MaxUrls == 1

\* the expires_in values a client asks for: a short one, the default, and
\* one longer than a session token lives
ExpiresIn == {1, DefaultExpiresIn, 2 * SessionExpiry}

\* the instants at which the clock is observed: the start, and each
\* lifetime together with the second after it
Instants ==
    {0} \cup UNION {{d, d + 1} :
                      d \in ExpiresIn \cup {ResetExpiry, SessionExpiry}}

\* uuid.uuid4() for jti: a value no token issued so far carries
NewJti == Cardinality(tokens) + 1

\* SessionManager.create_session_token(user_id, remember): the payload
\* {sub, exp, jti, type "session"}
CreateSessionToken(user_id, remember, jti) ==
    [type |-> "session", sub |-> user_id,
     exp |-> now + (IF remember THEN RememberExpiry ELSE SessionExpiry),
     jti |-> jti]

\* SessionManager.create_reset_token(user_id, email): the payload
\* {sub, exp, jti, type "password_reset"}
CreateResetToken(user_id, jti) ==
    [type |-> "password_reset", sub |-> user_id, exp |-> now + ResetExpiry,
     jti |-> jti]

\* A token that was not signed with the gateway's secret key.
ForgedToken ==
    [type |-> "session", sub |-> 1, exp |-> 2 * RememberExpiry, jti |-> 0]

\* jwt.decode(token, secret_key, algorithms=["HS256"]): the payload when the
\* signature is the gateway's and exp is not before the current second;
\* JWTError (nothing) otherwise.
JwtDecode(t) ==
    IF t \in tokens /\ ~(t.exp < now) THEN Some(t) ELSE None

\* A validate_session_token that does not look at the payload's type.
ValidateSessionTokenAnyType(t) == JwtDecode(t)

\* SessionManager.validate_session_token: the decoded payload when its type
\* is "session".
ValidateSessionToken(t) ==
    IF JwtDecode(t) # None /\ t.type = "session" THEN Some(t) ELSE None

\* SessionManager.validate_reset_token: the decoded payload when its type is
\* "password_reset".
ValidateResetToken(t) ==
    IF JwtDecode(t) # None /\ t.type = "password_reset" THEN Some(t) ELSE None

\* A verify_authentication that consults a list of logged-out tokens.
VerifyAuthenticationRevoking(credentials) ==
    IF credentials = None
    THEN [code |-> 401, detail |-> "Missing authentication credentials"]
    ELSE IF ValidateSessionToken(credentials[1]) # None
            /\ credentials[1] \notin loggedOut
    THEN [code |-> 200, detail |-> ""]
    ELSE [code |-> 401, detail |-> "Invalid authentication credentials"]

\* verify_authentication, the dependency of the protected endpoints:
\* credentials is the bearer token of the Authorization header, if any.
VerifyAuthentication(credentials) ==
    IF credentials = None
    THEN [code |-> 401, detail |-> "Missing authentication credentials"]
    ELSE IF ValidateSessionToken(credentials[1]) # None
    THEN [code |-> 200, detail |-> ""]
    ELSE [code |-> 401, detail |-> "Invalid authentication credentials"]

\* verify_authentication_query: the Authorization header first, then the
\* query parameter token; the token that authenticated, or the 401.
VerifyAuthenticationQuery(credentials, query_token) ==
    IF credentials # None /\ ValidateSessionToken(credentials[1]) # None
    THEN [code |-> 200, detail |-> "", token |-> credentials]
    ELSE IF query_token # None /\ ValidateSessionToken(query_token[1]) # None
    THEN [code |-> 200, detail |-> "", token |-> query_token]
    ELSE [code |-> 401, detail |-> "Missing or invalid authentication credentials",
          token |-> None]

\* reset_password: 400 unless validate_reset_token accepts the token.
ResetPassword(t) ==
    IF ValidateResetToken(t) = None
    THEN [code |-> 400, detail |-> "Invalid or expired reset token"]
    ELSE [code |-> 200, detail |-> ""]

\* The text of a query parameter that holds a number, and one that does
\* not: what int() makes of it.
IntText(n) == [numeric |-> TRUE, value |-> n]
NotANumber == [numeric |-> FALSE, value |-> 0]

\* hmac.new(secret_key, f"{endpoint}:{expires}:{token}", sha256) with
\* endpoint = /api/v1/books/{book_id}/chunks/{chunk_seq}: a keyed digest,
\* kept as the message it was computed over. flipped is FALSE on every
\* digest the gateway computes.
Hmac(book_id, chunk_seq, expires, token) ==
    [book |-> book_id, seq |-> chunk_seq, expires |-> expires, token |-> token,
     flipped |-> FALSE]

\* A hex string that is no digest of the gateway's.
FlippedBit(signature) == [signature EXCEPT !.flipped = TRUE]

\* generate_signed_url(book_id, chunk_seq, token, expires_in): the URL's
\* path and its query parameters expires, signature and token.
GenerateSignedUrl(book_id, chunk_seq, token, expires_in) ==
    LET expires_at == now + expires_in
    IN [book |-> book_id, seq |-> chunk_seq,
        expires |-> Some(IntText(expires_at)),
        signature |-> Some(Hmac(book_id, chunk_seq, IntText(expires_at), token)),
        token |-> Some(token),
        bearer |-> None]

\* A verify_signed_url that answers a bad signature and an invalid token
\* with the same detail.
VerifySignedUrlOneDetail(request) ==
    IF request.expires = None \/ request.signature = None \/ request.token = None
    THEN [code |-> 401, detail |-> "Missing signed URL parameters", token |-> None]
    ELSE IF ~request.expires[1].numeric
    THEN [code |-> 500, detail |-> "Failed to stream audio chunk", token |-> None]
    ELSE IF now > request.expires[1].value
    THEN [code |-> 401, detail |-> "Signed URL has expired", token |-> None]
    ELSE IF request.signature[1] #
              Hmac(request.book, request.seq, request.expires[1], request.token[1])
    THEN [code |-> 401, detail |-> "Invalid signed URL", token |-> None]
    ELSE IF ValidateSessionToken(request.token[1]) # None
    THEN [code |-> 200, detail |-> "", token |-> request.token]
    ELSE [code |-> 401, detail |-> "Invalid signed URL", token |-> None]

\* verify_signed_url(request, book_id, chunk_seq): the three parameters must
\* be there; int(expires) must not be in the past (a text that is no number
\* raises, which get_audio_chunk answers with 500); the signature must be
\* the digest of this path, this expires text and this token; the token must
\* be a valid session token.
VerifySignedUrl(request) ==
    IF request.expires = None \/ request.signature = None \/ request.token = None
    THEN [code |-> 401, detail |-> "Missing signed URL parameters", token |-> None]
    ELSE IF ~request.expires[1].numeric
    THEN [code |-> 500, detail |-> "Failed to stream audio chunk", token |-> None]
    ELSE IF now > request.expires[1].value
    THEN [code |-> 401, detail |-> "Signed URL has expired", token |-> None]
    ELSE IF request.signature[1] #
              Hmac(request.book, request.seq, request.expires[1], request.token[1])
    THEN [code |-> 401, detail |-> "Invalid signature", token |-> None]
    ELSE IF ValidateSessionToken(request.token[1]) # None
    THEN [code |-> 200, detail |-> "", token |-> request.token]
    ELSE [code |-> 401, detail |-> "Invalid authentication token", token |-> None]

\* get_audio_chunk: the signed URL when the query has a signature, else the
\* header or the query token; then the book row by id alone
\* (db_manager.get_book), the registry's chunks (any answer but 200 is a
\* 404), the chunk with that seq, and the audio file.
GetAudioChunk(request) ==
    LET auth == IF request.signature # None
                THEN VerifySignedUrl(request)
                ELSE VerifyAuthenticationQuery(request.bearer, request.token)
    IN IF auth.code # 200 THEN [code |-> auth.code, detail |-> auth.detail]
       ELSE IF ~(request.book \in BookIds /\ books[request.book].present)
       THEN [code |-> 404, detail |-> "Book not found"]
       ELSE IF GetAudioChunks(chunks, request.book).code # 200
       THEN [code |-> 404, detail |-> "No chunks found for book"]
       ELSE IF request.seq \notin chunks[request.book]
       THEN [code |-> 404, detail |-> "Chunk not found for book"]
       ELSE [code |-> 200, detail |-> "audio"]

\* The user a request to get_audio_chunk is authenticated as, or NoUser.
RequestUser(request) ==
    LET auth == IF request.signature # None
                THEN VerifySignedUrl(request)
                ELSE VerifyAuthenticationQuery(request.bearer, request.token)
    IN IF auth.code = 200 THEN auth.token[1].sub ELSE NoUser

\* A request to get_audio_chunk that carries only a bearer token.
BearerRequest(book_id, chunk_seq, t) ==
    [book |-> book_id, seq |-> chunk_seq, expires |-> None, signature |-> None,
     token |-> None, bearer |-> Some(t)]

\* A request to get_audio_chunk that carries only the query parameter token.
QueryTokenRequest(book_id, chunk_seq, t) ==
    [book |-> book_id, seq |-> chunk_seq, expires |-> None, signature |-> None,
     token |-> Some(t), bearer |-> None]

\* the chunk sequence numbers a client asks for
Seqs == 0..1

\* login: a session token for the authenticated user.
Login(u, remember) ==
    /\ Cardinality(tokens) < MaxTokens
    /\ tokens' = tokens \cup {CreateSessionToken(u, remember, NewJti)}
    /\ UNCHANGED <<shelf, now, urls, loggedOut>>
    /\ UNCHANGED accountVars
    /\ UNCHANGED pipelineVars

\* forgot_password for the e-mail address of user u: a reset token.
ForgotPassword(u) ==
    /\ Cardinality(tokens) < MaxTokens
    /\ tokens' = tokens \cup {CreateResetToken(u, NewJti)}
    /\ UNCHANGED <<shelf, now, urls, loggedOut>>
    /\ UNCHANGED accountVars
    /\ UNCHANGED pipelineVars

\* logout with bearer token t: verify_authentication must accept it; the
\* handler returns its message and changes nothing (loggedOut is history).
Logout(t) ==
    /\ VerifyAuthentication(Some(t)).code = 200
    /\ t \notin loggedOut
    /\ loggedOut' = loggedOut \cup {t}
    /\ UNCHANGED <<shelf, now, tokens, urls>>
    /\ UNCHANGED accountVars
    /\ UNCHANGED pipelineVars

\* generate_chunk_signed_url called with bearer token t: 404 unless the book
\* is the caller's; a new session token for the caller is created and the
\* URL is signed with it.
IssueSignedUrl(t, b, seq, expires_in) ==
    /\ VerifyAuthentication(Some(t)).code = 200
    /\ SignedUrlResponse(t.sub, b).code = 200
    /\ Cardinality(urls) < MaxUrls
    /\ LET user_token == CreateSessionToken(t.sub, FALSE, NewJti)
       IN /\ tokens' = tokens \cup {user_token}
          /\ urls' = urls \cup {GenerateSignedUrl(b, seq, user_token, expires_in)}
    /\ UNCHANGED <<shelf, now, loggedOut>>
    /\ UNCHANGED accountVars
    /\ UNCHANGED pipelineVars

\* reset_password with token t, answered with 200: the handler validates the
\* token and asks the user service to reset the password; it keeps no
\* record of the token (resetDone is history).
ResetPasswordWith(t) ==
    /\ ResetPassword(t).code = 200
    /\ resetDone' = resetDone \cup {t}
    /\ UNCHANGED <<shelf, now, tokens, urls, loggedOut>>
    /\ UNCHANGED <<userRows, checked, lastReg, lastChange, brokerUp, transcoder, synth, segmenter, userq>>
    /\ UNCHANGED pipelineVars

\* Time passes.
Tick(t) ==
    /\ t > now
    /\ now' = t
    /\ UNCHANGED <<shelf, tokens, urls, loggedOut>>
    /\ UNCHANGED accountVars
    /\ UNCHANGED pipelineVars

\* Users who log in, ask for reset tokens, log out, submit books and have
\* signed URLs issued, while time passes.
NextAuth ==
    \/ \E u \in Users : Login(u, FALSE)
    \/ \E u \in Users : ForgotPassword(u)
    \/ \E t \in tokens : Logout(t)
    \/ \E t \in tokens : ResetPasswordWith(t)
    \/ \E u \in Users : SubmitBook(u, 1, "ok")
    \/ \E t \in tokens, b \in BookIds, seq \in Seqs, e \in ExpiresIn :
          IssueSignedUrl(t, b, seq, e)
    \/ \E t \in Instants : Tick(t)

SpecAuth == Init /\ [][NextAuth]_vars

\* The requests a client can build from what the gateway has handed out:
\* each signed URL as issued, and with one part replaced.
Tampered(url) ==
    {[url EXCEPT !.book = b] : b \in BookIds}
    \cup {[url EXCEPT !.seq = s] : s \in Seqs}
    \cup {[url EXCEPT !.expires = Some(IntText(t))] : t \in Instants}
    \cup {[url EXCEPT !.expires = Some(NotANumber)]}
    \cup {[url EXCEPT !.token = Some(t)] : t \in tokens \cup {ForgedToken}}
    \cup {[url EXCEPT !.signature = Some(FlippedBit(url.signature[1]))]}

(***************************************************************************)
(* User-service calls over user_operations_queue / user_responses_queue.   *)
(***************************************************************************)

\* A wait that takes whatever response it pops.
MatchesAny(response_id, operation_id) == TRUE

\* response.get("operation_id") == operation_id
Matches(response_id, operation_id) == response_id = operation_id

\* lpush(name, x)
LPush(list, x) == <<x>> \o list
\* brpop(name): the element taken and the list left
Last(list) == list[Len(list)]
ButLast(list) == SubSeq(list, 1, Len(list) - 1)

\* The part of the model that is not userq.
notUserq ==
    <<shelf, now, tokens, urls, loggedOut, resetDone, userRows, checked,
      lastReg, lastChange, brokerUp, transcoder, synth, segmenter>>

\* RedisUserService.create_user / authenticate_user / ...: the request is
\* pushed with a fresh operation_id and the call starts to wait.
CallUserService(c) ==
    /\ userq.callers[c].state = "idle"
    /\ userq' = [userq EXCEPT
                    !.requests = LPush(@, c),
                    !.callers[c].state = "polling"]
    /\ UNCHANGED notUserq
    /\ UNCHANGED pipelineVars

\* UserOperationProcessor.start_processing: one request is popped and
\* processed, and the response with its operation_id is pushed.
ProcessUserOperation ==
    /\ userq.requests # << >>
    /\ LET op == Last(userq.requests)
       IN userq' = [userq EXCEPT
                       !.requests = ButLast(@),
                       !.responses = LPush(@, op),
                       !.callers[op].answered = ~userq.callers[op].expired]
    /\ UNCHANGED notUserq
    /\ UNCHANGED pipelineVars

\* The clock passes start_time + timeout of a call that is waiting.
TimeoutPasses(c) ==
    /\ userq.callers[c].state \in {"polling", "holding", "checking"}
    /\ ~userq.callers[c].expired
    /\ userq' = [userq EXCEPT !.callers[c].expired = TRUE]
    /\ UNCHANGED notUserq
    /\ UNCHANGED pipelineVars

\* _wait_for_response, brpop with timeout=1: nothing (the list stayed
\* empty), the caller's own response (returned), or another response (kept
\* until it is put back). `missed` records a poll that did not return the
\* caller's response although it had been pushed and the timeout had not
\* passed.
WaitBrpop(c) ==
    /\ userq.callers[c].state = "polling"
    /\ LET me == userq.callers[c]
           miss == me.missed \/ (me.answered /\ ~me.expired)
       IN IF userq.responses = << >>
          THEN userq' = [userq EXCEPT !.callers[c].state = "checking",
                                      !.callers[c].missed = miss]
          ELSE LET r == Last(userq.responses)
               IN IF Matches(r, c)
                  THEN userq' = [userq EXCEPT
                                    !.responses = ButLast(@),
                                    !.callers[c].state = "returned",
                                    !.callers[c].result = "response",
                                    !.callers[c].response = r]
                  ELSE userq' = [userq EXCEPT
                                    !.responses = ButLast(@),
                                    !.callers[c].state = "holding",
                                    !.callers[c].held = r,
                                    !.callers[c].missed = miss]
    /\ UNCHANGED notUserq
    /\ UNCHANGED pipelineVars

\* _wait_for_response: the response of another operation is pushed back.
WaitPutBack(c) ==
    /\ userq.callers[c].state = "holding"
    /\ userq' = [userq EXCEPT
                    !.responses = LPush(@, userq.callers[c].held),
                    !.callers[c].held = NoOperation,
                    !.callers[c].state = "checking"]
    /\ UNCHANGED notUserq
    /\ UNCHANGED pipelineVars

\* _wait_for_response: the timeout check; past it the call returns the
\* "Operation timed out" failure, otherwise it sleeps and polls again.
WaitCheckTimeout(c) ==
    /\ userq.callers[c].state = "checking"
    /\ userq' = IF userq.callers[c].expired
                THEN [userq EXCEPT !.callers[c].state = "returned",
                                   !.callers[c].result = "timeout"]
                ELSE [userq EXCEPT !.callers[c].state = "polling"]
    /\ UNCHANGED notUserq
    /\ UNCHANGED pipelineVars

NextUserQueue ==
    \/ \E c \in Callers : CallUserService(c)
    \/ ProcessUserOperation
    \/ \E c \in Callers : TimeoutPasses(c)
    \/ \E c \in Callers : WaitBrpop(c)
    \/ \E c \in Callers : WaitPutBack(c)
    \/ \E c \in Callers : WaitCheckTimeout(c)

SpecUserQueue == Init /\ [][NextUserQueue]_vars

\* The same with every coroutine and the processor scheduled again and
\* again (the asyncio event loop and the processor's `while True`).
SpecUserQueueFair ==
    /\ SpecUserQueue
    /\ WF_vars(ProcessUserOperation)
    /\ \A c \in Callers :
          /\ WF_vars(WaitBrpop(c))
          /\ WF_vars(WaitPutBack(c))
          /\ WF_vars(WaitCheckTimeout(c))

(***************************************************************************)
(* The segmenter packing sentences into chunks.                            *)
(***************************************************************************)

\* max_chunk_size, the character budget of a chunk (800 by default), scaled
\* down to the size of the sentences below.
MaxChunkSize == 6

\* The most sentences in a text.
MaxSentences == 4

\* Sentences as spaCy returns them, stripped and not empty: of 1, 2, 4 and
\* 5 characters, and one longer than the budget.
SentenceTexts == {"a", "bb", "dddd", "eeeee", "ggggggg"}

\* The texts by the sentences they are split into.
Texts == UNION {[1..n -> SentenceTexts] : n \in 0..MaxSentences}

\* " ".join(sentences)
RECURSIVE Join(_)
Join(sentences) ==
    IF sentences = << >> THEN ""
    ELSE IF Len(sentences) = 1 THEN sentences[1]
    ELSE sentences[1] \o " " \o Join(Tail(sentences))

\* A counter that forgets the separating space.
GrowWithoutSpace(current_chunk, current_size, sentence_length) ==
    current_size + sentence_length

\* A chunk numbered from 1.
ChunkNumberFromOne(i) == i

\* current_size after the else branch: the sentence has been appended when
\* the increment is computed, so `1 if current_chunk else 0` is always 1.
Grow(current_chunk, current_size, sentence_length) ==
    current_size + sentence_length + 1

\* enumerate(chunks): the seq of the i-th chunk of the list.
ChunkNumber(i) == i - 1

\* _create_chunks before its loop.
SegmentText(sentences) ==
    /\ segmenter.state = "idle"
    /\ segmenter' = [IdleSegmenter EXCEPT !.state = "packing",
                                          !.sentences = sentences]
    /\ UNCHANGED <<shelf, now, tokens, urls, loggedOut>>
    /\ UNCHANGED <<resetDone, userRows, checked, lastReg, lastChange, brokerUp, transcoder, synth, userq>>
    /\ UNCHANGED pipelineVars

\* One round of the loop of _create_chunks. `starts` records the positions
\* of the sentences before which the loop started a new chunk, with the
\* sentences the chunk it closed held.
PackSentence ==
    /\ segmenter.state = "packing"
    /\ segmenter.next <= Len(segmenter.sentences)
    /\ LET sentence == segmenter.sentences[segmenter.next]
           sentence_length == Len(sentence)
           current_chunk == segmenter.current_chunk
           current_size == segmenter.current_size
       IN segmenter' =
             IF current_chunk # << >>
                /\ current_size + sentence_length + 1 > MaxChunkSize
             THEN [segmenter EXCEPT
                      !.chunks = Append(@, current_chunk),
                      !.current_chunk = <<sentence>>,
                      !.current_size = sentence_length,
                      !.starts = @ \cup {[at |-> segmenter.next,
                                          closed |-> current_chunk]},
                      !.next = @ + 1]
             ELSE [segmenter EXCEPT
                      !.current_chunk = Append(@, sentence),
                      !.current_size = Grow(current_chunk, @, sentence_length),
                      !.next = @ + 1]
    /\ UNCHANGED <<shelf, now, tokens, urls, loggedOut>>
    /\ UNCHANGED <<resetDone, userRows, checked, lastReg, lastChange, brokerUp, transcoder, synth, userq>>
    /\ UNCHANGED pipelineVars

\* The end of _create_chunks (the last chunk is added when it has content)
\* and the rest of segment_text: a TextChunk per chunk with seq from
\* enumerate, text = " ".join(chunk_sentences) and char_count = len(text).
EmitTextChunks ==
    /\ segmenter.state = "packing"
    /\ segmenter.next > Len(segmenter.sentences)
    /\ LET all_chunks == IF segmenter.current_chunk # << >>
                     THEN Append(segmenter.chunks, segmenter.current_chunk)
                     ELSE segmenter.chunks
       IN segmenter' =
             [segmenter EXCEPT
                 !.state = "done",
                 !.chunks = all_chunks,
                 !.text_chunks =
                     [i \in 1..Len(all_chunks) |->
                         [seq |-> ChunkNumber(i),
                          sentences |-> all_chunks[i],
                          text |-> Join(all_chunks[i]),
                          char_count |-> Len(Join(all_chunks[i]))]]]
    /\ UNCHANGED <<shelf, now, tokens, urls, loggedOut>>
    /\ UNCHANGED <<resetDone, userRows, checked, lastReg, lastChange, brokerUp, transcoder, synth, userq>>
    /\ UNCHANGED pipelineVars

\* The segmenter's loop takes the next task.
NextSegmentTask ==
    /\ segmenter.state = "done"
    /\ segmenter' = IdleSegmenter
    /\ UNCHANGED <<shelf, now, tokens, urls, loggedOut>>
    /\ UNCHANGED <<resetDone, userRows, checked, lastReg, lastChange, brokerUp, transcoder, synth, userq>>
    /\ UNCHANGED pipelineVars

NextSegment ==
    \/ \E sentences \in Texts : SegmentText(sentences)
    \/ PackSentence
    \/ EmitTextChunks
    \/ NextSegmentTask

SpecSegment == Init /\ [][NextSegment]_vars

(***************************************************************************)
(* The TTS worker turning a book's stored segments into WAV files.         *)
(***************************************************************************)

\* The most segments the segmenter stores for the book.
MaxSegments == 5

\* sorted(chunks_dir.glob("chunk_*.json")): the names chunk_000.json,
\* chunk_001.json, ... in ascending order, as the seq values they carry.
RECURSIVE Sorted(_)
Sorted(S) ==
    IF S = {} THEN << >>
    ELSE LET least == CHOOSE x \in S : \A y \in S : x <= y
         IN <<least>> \o Sorted(S \ {least})

\* store_book_chunks of the storage service, called by the segmenter before
\* it pushes the TTS task: chunk_NNN.ssml and chunk_NNN.json for every
\* segment 0..n-1.
StoreBookChunks(n) ==
    /\ synth.state = "idle"
    /\ synth' = [synth EXCEPT !.state = "stored",
                              !.segments = 0..(n - 1),
                              !.files = 0..(n - 1)]
    /\ UNCHANGED <<shelf, now, tokens, urls, loggedOut>>
    /\ UNCHANGED <<resetDone, userRows, checked, lastReg, lastChange, brokerUp, transcoder, segmenter, userq>>
    /\ UNCHANGED pipelineVars

\* _get_book_chunks up to its loop: no chunks directory returns [] and
\* _process_book returns False; otherwise the metadata files are listed.
ListChunkFiles ==
    /\ synth.state = "stored"
    /\ synth' = IF synth.files = {}
                THEN [synth EXCEPT !.state = "failed"]
                ELSE [synth EXCEPT !.state = "reading",
                                   !.listing = Sorted(synth.files)]
    /\ UNCHANGED <<shelf, now, tokens, urls, loggedOut>>
    /\ UNCHANGED <<resetDone, userRows, checked, lastReg, lastChange, brokerUp, transcoder, segmenter, userq>>
    /\ UNCHANGED pipelineVars

\* One round of the loop of _get_book_chunks: the metadata file and the SSML
\* file are read and the chunk is appended; when the open raises or the
\* SSML file does not exist the chunk is skipped (`continue`).
ReadChunkFile ==
    /\ synth.state = "reading"
    /\ synth.listing # << >>
    /\ LET seq == Head(synth.listing)
       IN synth' = [synth EXCEPT
                       !.listing = Tail(@),
                       !.chunks_data = IF seq \in synth.files
                                       THEN Append(@, seq) ELSE @]
    /\ UNCHANGED <<shelf, now, tokens, urls, loggedOut>>
    /\ UNCHANGED <<resetDone, userRows, checked, lastReg, lastChange, brokerUp, transcoder, segmenter, userq>>
    /\ UNCHANGED pipelineVars

\* delete_book of the gateway: shutil.rmtree("/data/text/{book_id}"), on
\* the volume the TTS worker reads.
RemoveTextDir ==
    /\ synth.state \in {"stored", "reading"}
    /\ synth.files # {}
    /\ synth' = [synth EXCEPT !.files = {}]
    /\ UNCHANGED <<shelf, now, tokens, urls, loggedOut>>
    /\ UNCHANGED <<resetDone, userRows, checked, lastReg, lastChange, brokerUp, transcoder, segmenter, userq>>
    /\ UNCHANGED pipelineVars

\* The WAV files _save_audio_chunks writes: chunk_NNN.wav for every chunk
\* of the list, under the seq its metadata carries.
SaveAudioChunks(audio_chunks) ==
    {audio_chunks[k] : k \in 1..Len(audio_chunks)}

\* _process_book after _get_book_chunks: an empty list returns False; one
\* chunk whose synthesis fails returns False; otherwise the WAV files are
\* written and the call returns True.
GenerateAndSave(tts_ok) ==
    /\ synth.state = "reading"
    /\ synth.listing = << >>
    /\ synth' =
          IF synth.chunks_data = << >> \/ ~tts_ok
          THEN [synth EXCEPT !.state = "failed"]
          ELSE [synth EXCEPT !.state = "success",
                             !.wavs = SaveAudioChunks(synth.chunks_data)]
    /\ UNCHANGED <<shelf, now, tokens, urls, loggedOut>>
    /\ UNCHANGED <<resetDone, userRows, checked, lastReg, lastChange, brokerUp, transcoder, segmenter, userq>>
    /\ UNCHANGED pipelineVars

\* The TTS worker's loop takes the next task.
NextSynthTask ==
    /\ synth.state \in {"success", "failed"}
    /\ synth' = IdleSynth
    /\ UNCHANGED <<shelf, now, tokens, urls, loggedOut>>
    /\ UNCHANGED <<resetDone, userRows, checked, lastReg, lastChange, brokerUp, transcoder, segmenter, userq>>
    /\ UNCHANGED pipelineVars

NextSynth ==
    \/ \E n \in 1..MaxSegments : StoreBookChunks(n)
    \/ ListChunkFiles
    \/ ReadChunkFile
    \/ RemoveTextDir
    \/ \E tts_ok \in BOOLEAN : GenerateAndSave(tts_ok)
    \/ NextSynthTask

SpecSynth == Init /\ [][NextSynth]_vars

(***************************************************************************)
(* The transcoder cutting a book's WAV files into Ogg chunks.              *)
(***************************************************************************)

\* SEGMENT_DURATION, 3.14 seconds, in hundredths of a second.
SegmentDuration == 314

\* The most WAV files in a book's manifest.
MaxWavs == 3

\* duration_s of a WAV file, in hundredths of a second: empty, shorter than
\* a segment, exactly one segment, a little more, and more than two.
Durations == {0, 1, SegmentDuration, SegmentDuration + 1, 2 * SegmentDuration + 72}

\* The manifests GET /books/{book_id}/wav-files can return.
Manifests == UNION {[1..n -> Durations] : n \in 0..MaxWavs}

\* Every segment cut at the full segment duration.
FullSegment(a, b) == a

Min(a, b) == IF a < b THEN a ELSE b

\* A chunk numbered within its own WAV file.
ChunkSeqPerFile(global_chunk_seq, segment_idx) == segment_idx

\* chunk_seq = global_chunk_seq + segment_idx
ChunkSeq(global_chunk_seq, segment_idx) == global_chunk_seq + segment_idx

\* The loop of _transcode_wav_file from segment_idx on, with ffmpeg
\* succeeding: num_segments = int(duration_s / segment_duration) + 1, and
\* the loop breaks at the first segment with no audio left.
RECURSIVE TranscodeSegments(_, _, _)
TranscodeSegments(duration_s, global_chunk_seq, segment_idx) ==
    LET num_segments == (duration_s \div SegmentDuration) + 1
        start_time == segment_idx * SegmentDuration
        actual_duration == Min(SegmentDuration, duration_s - start_time)
    IN IF segment_idx >= num_segments \/ actual_duration <= 0
       THEN << >>
       ELSE <<[seq |-> ChunkSeq(global_chunk_seq, segment_idx),
               start_time |-> start_time,
               duration_s |-> actual_duration]>>
            \o TranscodeSegments(duration_s, global_chunk_seq, segment_idx + 1)

\* _transcode_wav_file: the chunks of one WAV file, or the empty list when
\* ffmpeg fails for one of its segments.
TranscodeWavFile(duration_s, global_chunk_seq, ffmpeg_ok) ==
    IF ffmpeg_ok THEN TranscodeSegments(duration_s, global_chunk_seq, 0) ELSE << >>

\* _transcode_book up to its loop: the manifest is fetched; an empty one
\* ends the call with False.
GetWavFiles(wav_files) ==
    /\ transcoder.state = "idle"
    /\ transcoder' =
          [state |-> IF wav_files = << >> THEN "failed" ELSE "running",
           wav_files |-> wav_files, next |-> 1,
           transcoded_chunks |-> << >>, global_chunk_seq |-> 0]
    /\ UNCHANGED <<shelf, now, tokens, urls, loggedOut>>
    /\ UNCHANGED <<resetDone, userRows, checked, lastReg, lastChange, brokerUp, synth, segmenter, userq>>
    /\ UNCHANGED pipelineVars

\* One round of the loop of _transcode_book: the next WAV file is cut; its
\* chunks extend transcoded_chunks and advance global_chunk_seq by their
\* number; no chunks end the call with False.
TranscodeNextWav(ffmpeg_ok) ==
    /\ transcoder.state = "running"
    /\ transcoder.next <= Len(transcoder.wav_files)
    /\ LET wav == transcoder.wav_files[transcoder.next]
           cut == TranscodeWavFile(wav, transcoder.global_chunk_seq, ffmpeg_ok)
       IN transcoder' =
             IF cut # << >>
             THEN [transcoder EXCEPT
                      !.transcoded_chunks = @ \o cut,
                      !.global_chunk_seq = @ + Len(cut),
                      !.next = @ + 1]
             ELSE [transcoder EXCEPT !.state = "failed"]
    /\ UNCHANGED <<shelf, now, tokens, urls, loggedOut>>
    /\ UNCHANGED <<resetDone, userRows, checked, lastReg, lastChange, brokerUp, synth, segmenter, userq>>
    /\ UNCHANGED pipelineVars

\* _update_chunk_metadata after the loop: the chunk list is posted to the
\* audio-chunk registry for book b; 200 ends the call with True, any other
\* answer raises and ends it with False.
UpdateChunkMetadata(b) ==
    /\ transcoder.state = "running"
    /\ transcoder.next > Len(transcoder.wav_files)
    /\ LET posted == {transcoder.transcoded_chunks[k].seq :
                         k \in 1..Len(transcoder.transcoded_chunks)}
           post == StoreAudioChunks(books, chunks, b, posted)
       IN /\ books' = post.books
          /\ chunks' = post.chunks
          /\ transcoder' = [transcoder EXCEPT
                               !.state = IF post.code = 200 THEN "done" ELSE "failed"]
    /\ UNCHANGED <<used, toStart, src, textStored, segStored, wavStored,
                   queue, completed, outbox, lastTask, opc, workOk, execLog,
                   enqueued, applied, popped, emitted, dups, malformed>>
    /\ UNCHANGED <<shelf, now, tokens, urls, loggedOut>>
    /\ UNCHANGED <<resetDone, userRows, checked, lastReg, lastChange, brokerUp, synth, segmenter, userq>>

\* The transcoder's loop takes the next task.
NextTranscodeTask ==
    /\ transcoder.state \in {"done", "failed"}
    /\ transcoder' = IdleTranscoder
    /\ UNCHANGED <<shelf, now, tokens, urls, loggedOut>>
    /\ UNCHANGED <<resetDone, userRows, checked, lastReg, lastChange, brokerUp, synth, segmenter, userq>>
    /\ UNCHANGED pipelineVars

NextTranscode ==
    \/ \E wav_files \in Manifests : GetWavFiles(wav_files)
    \/ \E ffmpeg_ok \in BOOLEAN : TranscodeNextWav(ffmpeg_ok)
    \/ \E b \in BookIds : UpdateChunkMetadata(b)
    \/ NextTranscodeTask

SpecTranscode == Init /\ [][NextTranscode]_vars

(***************************************************************************)
(* Operations on user accounts.                                            *)
(***************************************************************************)
\* UserCreateRequest(username, email, password): the validated request;
\* validate_username returns the name in lower case.
UserCreateRequest(username, email, password) ==
    [username |-> Lower(username), email |-> email, password |-> password]

\* The rows that have the request's username or its address in lower case:
\* the query of create_user.
ExistingUsers(rows, req) ==
    {r \in rows : r.username = req.username \/ r.email = Lower(req.email)}

\* Some account already has the name or the address, compared without case.
IsDuplicate(rows, req) ==
    \E r \in rows : Lower(r.username) = Lower(req.username)
                    \/ Lower(r.email) = Lower(req.email)

\* The UNIQUE constraints of columns username and email.
UniqueViolated(rows, row) ==
    \E r \in rows : r.username = row.username \/ r.email = row.email

\* UserService.create_user, first part: the query for an existing user.
\* A hit raises ValueError("Username already exists") or ("Email already
\* exists"), which POST /users answers with 400.
CreateUserCheck(username, email, password) ==
    LET req == UserCreateRequest(username, email, password)
        hit == ExistingUsers(userRows, req)
    IN /\ ValidPassword(password)
       /\ req \notin checked
       /\ IF hit # {}
          THEN /\ lastReg' =
                    [code |-> 400,
                     detail |-> IF \E r \in hit : r.username = req.username
                                THEN "Username already exists"
                                ELSE "Email already exists",
                     duplicate |-> IsDuplicate(userRows, req)]
               /\ UNCHANGED checked
          ELSE /\ checked' = checked \cup {req}
               /\ UNCHANGED lastReg
       /\ UNCHANGED <<userRows, lastChange, resetDone, brokerUp, transcoder, synth, segmenter, userq>>
       /\ UNCHANGED <<shelf, now, tokens, urls, loggedOut>>
       /\ UNCHANGED pipelineVars

\* UserService.create_user, second part: the insert and the commit. The
\* UNIQUE constraints raise IntegrityError, whose text holds the statement
\* INSERT INTO users (id, username, ...), so the answer is "Username already
\* exists"; otherwise the row is there and the answer is 201.
CreateUserInsert(req) ==
    LET row == [id |-> Cardinality(userRows) + 1, username |-> req.username,
                email |-> Lower(req.email),
                password_hash |-> HashPassword(req.password), is_active |-> TRUE]
    IN /\ req \in checked
       /\ checked' = checked \ {req}
       /\ IF UniqueViolated(userRows, row)
          THEN /\ lastReg' = [code |-> 400, detail |-> "Username already exists",
                              duplicate |-> IsDuplicate(userRows, req)]
               /\ UNCHANGED userRows
          ELSE /\ Cardinality(userRows) < MaxAccounts
               /\ userRows' = userRows \cup {row}
               /\ lastReg' = [code |-> 201, detail |-> "",
                              duplicate |-> IsDuplicate(userRows, req)]
       /\ UNCHANGED <<lastChange, resetDone, brokerUp, transcoder, synth, segmenter, userq>>
       /\ UNCHANGED <<shelf, now, tokens, urls, loggedOut>>
       /\ UNCHANGED pipelineVars

\* register_user of the gateway: the request goes through the queue to
\* UserOperationProcessor._create_user, which validates it, calls the
\* coroutine function UserService.create_user without awaiting it and reads
\* .id of the coroutine object: AttributeError, answered as "Internal
\* error: ...", which register_user turns into 500. No row is written.
RegisterUser(username, email, password) ==
    LET req == UserCreateRequest(username, email, password)
    IN /\ ValidPassword(password)
       /\ lastReg' = [code |-> 500, detail |-> "Internal error",
                      duplicate |-> IsDuplicate(userRows, req)]
       /\ UNCHANGED <<userRows, checked, lastChange, resetDone, brokerUp, transcoder, synth, segmenter, userq>>
       /\ UNCHANGED <<shelf, now, tokens, urls, loggedOut>>
       /\ UNCHANGED pipelineVars

\* UserService.authenticate_user(email, password): the row with that
\* address in lower case, if it is active and the password verifies.
AuthenticateUser(rows, email, password) ==
    LET hit == {r \in rows : r.email = Lower(email)}
    IN IF hit = {} THEN None
       ELSE LET user == CHOOSE r \in hit : TRUE
            IN IF user.is_active /\ VerifyPassword(password, user.password_hash)
               THEN Some(user) ELSE None

\* A change_password that does not store the new hash.
ChangePasswordKeepsHash(rows, user_id, current_password, new_password) == rows

\* The rows after UserService.change_password succeeded: the user's row
\* with the hash of the new password.
ChangePasswordRows(rows, user_id, current_password, new_password) ==
    {IF r.id = user_id
     THEN [r EXCEPT !.password_hash = HashPassword(new_password)] ELSE r :
     r \in rows}

\* UserService.change_password(user_id, current_password, new_password):
\* True after storing the new hash when the user exists, the current
\* password verifies and the new one is valid; False otherwise.
ChangePasswordOk(rows, user_id, current_password, new_password) ==
    \E r \in rows :
        /\ r.id = user_id
        /\ VerifyPassword(current_password, r.password_hash)
        /\ ValidPassword(new_password)

\* POST /users/{user_id}/change-password of the storage service, answered
\* with 200.
ChangeUserPassword(user_id, current_password, new_password) ==
    /\ ChangePasswordOk(userRows, user_id, current_password, new_password)
    /\ userRows' = ChangePasswordRows(userRows, user_id, current_password, new_password)
    /\ lastChange' = [lastChange EXCEPT ![user_id] =
                        [changed |-> TRUE, old |-> current_password,
                         new |-> new_password]]
    /\ UNCHANGED <<checked, lastReg, resetDone, brokerUp, transcoder, synth, segmenter, userq>>
    /\ UNCHANGED <<shelf, now, tokens, urls, loggedOut>>
    /\ UNCHANGED pipelineVars

\* POST /users/{user_id}/deactivate and /activate of the storage service.
SetActive(user_id, active) ==
    /\ \E r \in userRows : r.id = user_id /\ r.is_active # active
    /\ userRows' = {IF r.id = user_id THEN [r EXCEPT !.is_active = active] ELSE r :
                    r \in userRows}
    /\ UNCHANGED <<checked, lastReg, lastChange, resetDone, brokerUp, transcoder, synth, segmenter, userq>>
    /\ UNCHANGED <<shelf, now, tokens, urls, loggedOut>>
    /\ UNCHANGED pipelineVars

\* Registrations through the storage service and through the gateway,
\* password changes and (de)activations, in any interleaving.
NextUsers ==
    \/ \E n \in Usernames, e \in Emails, p \in Passwords : CreateUserCheck(n, e, p)
    \/ \E req \in checked : CreateUserInsert(req)
    \/ \E n \in Usernames, e \in Emails, p \in Passwords : RegisterUser(n, e, p)
    \/ \E i \in UserIds, c \in Passwords, p \in Passwords : ChangeUserPassword(i, c, p)
    \/ \E i \in UserIds, a \in BOOLEAN : SetActive(i, a)

SpecUsers == Init /\ [][NextUsers]_vars

(***************************************************************************)
(* Properties.                                                             *)
(***************************************************************************)
\* The order of the book state machine.
StatusOrder ==
    <<"pending", "extracting", "segmenting", "generating_audio", "transcoding",
      "completed">>

Rank(s) == CHOOSE i \in 1..Len(StatusOrder) : StatusOrder[i] = s

InOrder(s) == \E i \in 1..Len(StatusOrder) : StatusOrder[i] = s

\* A change of status from s to t that the state machine permits.
MovesForward(s, t) ==
    \/ t = "failed"
    \/ InOrder(s) /\ InOrder(t) /\ Rank(s) < Rank(t)

\* Nothing is in flight: no coroutine waits to start, every list is empty and
\* no worker holds a completion.
Drained ==
    /\ toStart = {}
    /\ \A w \in Workers : queue[w] = << >> /\ completed[w] = << >> /\ outbox[w] = << >>

\* C1: every change of a book's status moves it forward along
\* pending -> extracting -> segmenting -> generating_audio -> transcoding ->
\* completed, or to failed; it never moves to an earlier state.
C1_StatusMovesForward ==
    [][\A b \in BookIds :
          (books[b].present /\ books'[b].present
             /\ books'[b].status # books[b].status)
          => MovesForward(books[b].status, books'[b].status)]_vars

\* C2: once a book's status is failed or completed it never changes again.
C2_TerminalIsFinal ==
    [][\A b \in BookIds :
          (books[b].present /\ books'[b].present
             /\ books[b].status \in {"failed", "completed"})
          => books'[b].status = books[b].status]_vars

\* C3: percent_complete never decreases from one observation to the next
\* while the book's status is not failed.
C3_PercentNeverDecreases ==
    [][\A b \in BookIds :
          (books[b].present /\ books'[b].present
             /\ books[b].status # "failed" /\ books'[b].status # "failed")
          => books'[b].percent_complete >= books[b].percent_complete]_vars

\* C4: applying a completion envelope that has been applied before leaves
\* every book's status, percent_complete, error message and chunks as they
\* were.
C4_DuplicateIsNoOp ==
    [][\A w \in Workers :
          (opc = w /\ opc' # w /\ completed[w] # << >>
             /\ Head(completed[w]) \in applied[w])
          => (books' = books /\ chunks' = chunks)]_vars

\* C5: once the pipeline has drained, a book whose four stages all did their
\* work is reported by the status endpoint as completed, with
\* percent_complete = 100 and total_chunks > 0.
C5_DrainedBookIsCompleted ==
    \A b \in BookIds :
        (Drained /\ books[b].present /\ workOk[b] = Workers)
        => LET r == GetBookStatus(books[b].user_id, b)
           IN /\ r.code = 200
              /\ r.status = "completed"
              /\ r.percent_complete = 100
              /\ r.total_chunks # None
              /\ r.total_chunks[1] > 0

\* C8: for every task a worker has popped it has pushed, or holds ready to
\* push, a completion envelope.
C8_EveryPopIsAnswered ==
    \A w \in Workers : popped[w] = emitted[w] + Len(outbox[w])

\* The order in which the stages of a book run.
StageOrder == <<"ingest", "segment", "tts", "transcode">>

IsPrefix(s, t) == Len(s) <= Len(t) /\ \A i \in 1..Len(s) : s[i] = t[i]

\* C9: a task for a stage is pushed only after the stage before it did its
\* work for the same book, and the stages of a book run in the order
\* extract, segment, synthesize, transcode.
C9_StagesRunInOrder ==
    \A b \in BookIds :
        /\ IsPrefix(execLog[b], StageOrder)
        /\ \A i \in 2..Len(StageOrder) :
              StageOrder[i] \in enqueued[b] => StageOrder[i - 1] \in workOk[b]

\* C9 witness: all four stages have run for a book.
C9_Witness ==
    \E b \in BookIds : execLog[b] = StageOrder

\* The completion envelopes the extractor has built so far.
IngestEnvelopes ==
    {outbox["ingest"][i] : i \in 1..Len(outbox["ingest"])}
      \cup {completed["ingest"][i] : i \in 1..Len(completed["ingest"])}
      \cup applied["ingest"]

\* C10: whenever the extractor has emitted a completion with success = true
\* for a book, it has pushed a segment task for that book.
C10_SuccessMeansSegmentTask ==
    \A env \in IngestEnvelopes :
        (env.success /\ env.book_id \in BookIds)
        => "segment" \in enqueued[env.book_id]

\* The envelope a check of list w is about to apply, if any.
Applying(w) == opc = w /\ opc' # w /\ completed[w] # << >>
NextEnvelope(w) == Head(completed[w])

C12_DeletedBookIsIgnored ==
    [][\A w \in Workers :
          (Applying(w) /\ NextEnvelope(w).book_id \in BookIds
             /\ NextEnvelope(w).book_id \in used
             /\ ~books[NextEnvelope(w).book_id].present)
          => (books' = books /\ chunks' = chunks)]_vars

\* C12 witness: an envelope for a deleted book has been applied while
\* another book has a row.
C12_Witness ==
    \E b \in BookIds, c \in BookIds, w \in Workers :
        /\ b \in used /\ ~books[b].present
        /\ \E env \in applied[w] : env.book_id = b
        /\ c # b /\ books[c].present

\* A book that was submitted and whose row has been deleted.
Deleted(b) == b \in used /\ ~books[b].present

\* C13: once a book has been deleted, every later status request, chunk-list
\* request and DELETE for its id is answered with 404, whatever the pipeline
\* does afterwards.
C13_DeletedStaysNotFound ==
    [][\A b \in BookIds : Deleted(b) =>
          \A u \in Users :
              /\ GetBookStatus(u, b)'.code = 404
              /\ ListBookChunks(u, b)'.code = 404
              /\ DeleteBookResponse(u, b)'.code = 404]_vars

\* C13 witness: a success envelope of a deleted book is the next the
\* orchestrator applies, and the book's text was stored.
C13_Witness ==
    \E b \in BookIds, w \in Workers :
        /\ Deleted(b)
        /\ opc = w /\ completed[w] # << >>
        /\ NextEnvelope(w).book_id = b /\ NextEnvelope(w).success
        /\ textStored[b] = "ok"

\* C14: for every user u and every book row, the row is in the result of
\* list-books issued as u if and only if u owns it.
C14_ListIsExactlyOwned ==
    \A u \in Users : \A v \in Users : \A k \in 1..shelf[v] :
        (<<v, k>> \in ListBooks(u)) <=> (u = v)

\* A book that exists and is owned by someone other than u.
OwnedByAnother(u, b) == books[b].present /\ books[b].user_id # u

\* Two responses that a client cannot tell apart: the same status code and
\* the same body, the requested id inside the detail text aside.
SameResponse(r1, r2) ==
    /\ r1.code = r2.code
    /\ Len(r1.detail) = Len(r2.detail)
    /\ (r1.detail # << >> => r1.detail[1] = r2.detail[1])
    /\ [r1 EXCEPT !.detail = << >>] = [r2 EXCEPT !.detail = << >>]

\* C15: for status, chunk-list, signed-URL and delete requests, the response
\* a user gets for a book owned by someone else is a 404 that cannot be told
\* apart from the response for a book id that does not exist.
C15_ForeignLooksMissing ==
    \A u \in Users : \A b \in BookIds : \A c \in BookIds :
        (OwnedByAnother(u, b) /\ ~books[c].present)
        => /\ GetBookStatus(u, b).code = 404
           /\ SameResponse(GetBookStatus(u, b), GetBookStatus(u, c))
           /\ SameResponse(ListBookChunks(u, b), ListBookChunks(u, c))
           /\ SameResponse(SignedUrlResponse(u, b), SignedUrlResponse(u, c))
           /\ SameResponse(DeleteBookResponse(u, b), DeleteBookResponse(u, c))

\* C15 witness: a user, a book of another user that is past extraction, and
\* a book id that has no row.
C15_Witness ==
    \E u \in Users : \E b \in BookIds : \E c \in BookIds :
        /\ OwnedByAnother(u, b) /\ ~books[c].present
        /\ books[b].status = "segmenting"

\* Every way of presenting token t where a session token is required: the
\* Authorization header of a protected endpoint, the header or the query
\* parameter of the streaming endpoint, and the token of a signed URL.
AcceptedAsSession(t) ==
    \/ VerifyAuthentication(Some(t)).code = 200
    \/ VerifyAuthenticationQuery(Some(t), None).code = 200
    \/ VerifyAuthenticationQuery(None, Some(t)).code = 200
    \/ \E url \in urls : VerifySignedUrl([url EXCEPT !.token = Some(t)]).code = 200

\* C17: a password-reset token is never accepted where a session token is
\* required (bearer header, query token, signed URL token), and a session
\* token is never accepted by reset_password.
C17_TokenTypesAreSeparate ==
    \A t \in tokens :
        /\ t.type = "password_reset" => ~AcceptedAsSession(t)
        /\ t.type = "session" => ResetPassword(t).code = 400

\* An unexpired reset token that reset_password accepts and an unexpired
\* session token that the protected endpoints accept exist together.
C17_Witness ==
    \E r \in tokens, t \in tokens :
        /\ r.type = "password_reset" /\ ResetPassword(r).code = 200
        /\ t.type = "session" /\ VerifyAuthentication(Some(t)).code = 200
        /\ ~AcceptedAsSession(r)
        /\ ResetPassword(t).code = 400

ExpiresAt(url) == url.expires[1].value

\* C19: a signed URL, consumed as issued, is answered with 200 at every
\* second before its expires timestamp and with 401 at every second after.
C19_SignedUrlGoodUntilExpires ==
    \A url \in urls :
        /\ now < ExpiresAt(url) => GetAudioChunk(url).code = 200
        /\ now > ExpiresAt(url) => GetAudioChunk(url).code = 401

\* The requests that present the signature of url with another book id,
\* seq, expires value or token.
Replayed(url) == {r \in Tampered(url) : r.signature = url.signature /\ r # url}

\* C20: presenting the signature of a signed URL together with a different
\* book id, seq, expires value or token is answered with 401 "Invalid
\* signature".
C20_SignatureBindsTheUrl ==
    \A url \in urls : \A r \in Replayed(url) :
        GetAudioChunk(r) = [code |-> 401, detail |-> "Invalid signature"]

\* The requests on the signed-URL path that a client can build from the
\* URLs the gateway issued.
SignedRequests == urls \cup UNION {Tampered(url) : url \in urls}

\* What is wrong with a signed request: its expires is in the past; or else
\* its signature is not the digest of what it presents; or else its token is
\* no valid session token. "none" when nothing is, "malformed" when expires
\* is no number.
Defect(r) ==
    IF ~r.expires[1].numeric THEN "malformed"
    ELSE IF now > r.expires[1].value THEN "expired"
    ELSE IF r.signature[1] # Hmac(r.book, r.seq, r.expires[1], r.token[1])
    THEN "signature"
    ELSE IF ~(r.token[1] \in tokens /\ r.token[1].type = "session"
              /\ now <= r.token[1].exp)
    THEN "token"
    ELSE "none"

\* The detail messages that signed requests with defect d are answered with.
DetailsOf(d) ==
    {GetAudioChunk(r).detail : r \in {q \in SignedRequests : Defect(q) = d}}

C22_ResetTokenIsSingleUse ==
    \A t \in resetDone : ResetPassword(t).code # 200

\* No two rows of table users share a username or an address, compared
\* without case.
UsersAreUnique ==
    \A r \in userRows : \A q \in userRows :
        r # q => /\ Lower(r.username) # Lower(q.username)
                 /\ Lower(r.email) # Lower(q.email)

\* C23: no two users share a username or an e-mail address compared
\* case-insensitively, whatever the interleaving of registrations, and a
\* registration for a name or address that is already taken is answered
\* with the 400 "already exists" conflict.
C23_UniqueUsersAndConflict ==
    /\ UsersAreUnique
    /\ lastReg.duplicate =>
          /\ lastReg.code = 400
          /\ lastReg.detail \in {"Username already exists", "Email already exists"}

\* A book whose start_processing has run: it has a row and is no longer
\* waiting for its background task.
Started(b) == books[b].present /\ b \notin toStart

\* C24: a book submitted while the broker is unavailable is not marked
\* failed, and once the broker is available again its extract task is
\* enqueued.
C24_BrokerDownOnlyDelays ==
    \A b \in BookIds :
        Started(b) =>
            /\ ~(/\ books[b].status = "failed"
                 /\ books[b].error_message = Some("Failed to start processing"))
            /\ brokerUp => "ingest" \in enqueued[b]

\* The status values of the book life cycle.
LifeCycle ==
    {"pending", "extracting", "segmenting", "generating_audio", "transcoding",
     "completed", "failed"}

\* C25: at all times the stored status of every book is one of pending,
\* extracting, segmenting, generating_audio, transcoding, completed, failed.
C25_StatusInLifeCycle ==
    \A b \in BookIds : books[b].present => books[b].status \in LifeCycle

\* C26: the status endpoint returns the row's current status,
\* percent_complete and error message as the orchestrator last wrote them;
\* a failed book is reported with a non-empty error_message.
C26_StatusEndpointReportsRow ==
    \A u \in Users : \A b \in BookIds :
        GetBookById(books, b, u) # None =>
            LET r == GetBookStatus(u, b)
            IN /\ r.code = 200
               /\ r.status = books[b].status
               /\ r.percent_complete = books[b].percent_complete
               /\ r.error_message = books[b].error_message
               /\ r.status = "failed" => r.error_message # None

\* Authentication with the password a user's last successful change set
\* succeeds, and with the password it replaced fails.
NewPasswordReplacesOld(r) ==
    /\ AuthenticateUser(userRows, r.email, lastChange[r.id].new) # None
    /\ AuthenticateUser(userRows, r.email, lastChange[r.id].old) = None

\* After a successful password change, whatever the account's state and
\* whatever the two passwords, the new password authenticates and the old
\* one does not.
C27_AnyChangeReplaces ==
    \A r \in userRows : lastChange[r.id].changed => NewPasswordReplacesOld(r)

\* C27: after a successful password change of an active user from an old
\* password to a different new one, authentication with the user's e-mail
\* address and the new password succeeds and authentication with the old
\* password fails.
C27_ChangedPasswordAuthenticates ==
    \A r \in userRows :
        (/\ lastChange[r.id].changed
         /\ r.is_active
         /\ lastChange[r.id].old # lastChange[r.id].new) => NewPasswordReplacesOld(r)

\* An active user, not the default admin, has changed the password to a
\* different one and authenticates with it.
C27_Witness ==
    \E r \in userRows :
        /\ r.id # AdminRow.id
        /\ lastChange[r.id].changed
        /\ r.is_active
        /\ lastChange[r.id].old # lastChange[r.id].new
        /\ AuthenticateUser(userRows, r.email, lastChange[r.id].new) = Some(r)

\* Every WAV file of the manifest has been cut.
AllWavsTranscoded ==
    /\ transcoder.state \in {"running", "done"}
    /\ transcoder.next > Len(transcoder.wav_files)

\* C28: for a book whose WAV files the transcoder has all cut, the seq
\* values of the chunks, in the order they were produced, are 0, 1, ...,
\* N-1 with no gaps and no duplicates.
C28_SeqContiguousFromZero ==
    AllWavsTranscoded =>
        \A k \in 1..Len(transcoder.transcoded_chunks) :
            transcoder.transcoded_chunks[k].seq = k - 1

\* Three WAV files, one of them cut into several chunks, have all been cut.
C28_Witness ==
    /\ AllWavsTranscoded
    /\ Len(transcoder.wav_files) = MaxWavs
    /\ Len(transcoder.transcoded_chunks) > MaxWavs

\* The seq values of the chunk list the transcoder posts.
PostedChunks ==
    {transcoder.transcoded_chunks[k].seq : k \in 1..Len(transcoder.transcoded_chunks)}

\* C29: posting a chunk list for a book to the audio-chunk registry
\* replaces that book's entries: afterwards the registry answers for that
\* book with exactly the posted chunks, and the entries of the other books
\* are unchanged.
C29_PostReplacesTheBooksChunks ==
    [][\A b \in BookIds :
          UpdateChunkMetadata(b) =>
              /\ GetAudioChunks(chunks', b).code = 200
              /\ chunks'[b] = PostedChunks
              /\ \A o \in BookIds \ {b} : chunks'[o] = chunks[o]]_vars

\* An envelope for book b waits on worker w's completion list.
Waiting(w, b) ==
    \E i \in 1..Len(completed[w]) : completed[w][i].book_id = b

\* The orchestrator has popped an envelope for book b from w's list.
Popped(w, b) == \E env \in applied[w] : env.book_id = b

\* C31: while the orchestrator keeps running, every completion envelope
\* pushed to one of the four completion lists is eventually popped and
\* applied, whatever waits on the other lists and whatever text that does
\* not parse is among them.
C31_EveryEnvelopeIsApplied ==
    \A w \in Workers : \A b \in BookIds \cup {Unknown} :
        Waiting(w, b) ~> Popped(w, b)

\* An envelope of a book has been applied from one list after unparsable
\* text was popped from the same list, while another list has a backlog.
C31_Witness ==
    \E w \in Workers : \E v \in Workers \ {w} :
        /\ Unparsable \in applied[w]
        /\ \E env \in applied[w] : env.book_id \in BookIds
        /\ completed[v] # << >>

\* C32: applying a completion envelope for one book leaves the row (status,
\* percent_complete, error message, total_chunks) and the chunks of every
\* other book unchanged.
C32_ApplyTouchesOneBook ==
    [][\A w \in Workers :
          (CheckCompletion(w) /\ completed[w] # << >>) =>
              \A o \in BookIds \ {Head(completed[w]).book_id} :
                  /\ books'[o] = books[o]
                  /\ chunks'[o] = chunks[o]]_vars

\* An envelope has been applied to one book while the other book has a row
\* in a different status.
C32_Witness ==
    \E w \in Workers : \E env \in applied[w] : \E o \in BookIds :
        /\ env.book_id \in BookIds \ {o}
        /\ books[env.book_id].present
        /\ books[o].present
        /\ books[o].status # books[env.book_id].status
        /\ books[env.book_id].status \in {"segmenting", "failed"}

\* C33: when the synthesizer reports success for a book, a raw-audio file
\* exists for every segment the segmenter produced for the book and for no
\* other seq.
C33_OneWavPerSegment ==
    synth.state = "success" => synth.wavs = synth.segments

\* The segments _transcode_wav_file cuts a WAV file of duration d into:
\* start_time and duration_s are the -ss and -t arguments of ffmpeg.
SegmentsOf(d) == TranscodeWavFile(d, 0, TRUE)

RECURSIVE SumDurations(_)
SumDurations(segs) ==
    IF segs = << >> THEN 0 ELSE Head(segs).duration_s + SumDurations(Tail(segs))

\* The segments of a WAV file of duration d start at 0, follow one another
\* without gap or overlap and end at d; all but the last last exactly
\* SegmentDuration, the last lasts the positive remainder.
WellCut(d) ==
    LET segs == SegmentsOf(d)
        n == Len(segs)
    IN /\ n >= 1
       /\ segs[1].start_time = 0
       /\ \A k \in 1..(n - 1) :
             /\ segs[k].duration_s = SegmentDuration
             /\ segs[k + 1].start_time = segs[k].start_time + segs[k].duration_s
       /\ segs[n].duration_s \in 1..SegmentDuration
       /\ segs[n].start_time + segs[n].duration_s = d
       /\ SumDurations(segs) = d

\* C34: a source WAV of duration D > 0 is cut into contiguous segments
\* covering [0, D): every segment except possibly the last has duration
\* exactly S, the last has the positive remainder, none is empty or
\* negative, and the durations sum to D.
C34_SegmentsCoverTheWav ==
    \A i \in 1..Len(transcoder.wav_files) :
        (i < transcoder.next /\ transcoder.wav_files[i] > 0) =>
            WellCut(transcoder.wav_files[i])

\* A WAV file of exactly one segment duration and one of more than two
\* segment durations have been cut.
C34_Witness ==
    /\ transcoder.state = "running"
    /\ \E i \in 1..Len(transcoder.wav_files) :
          i < transcoder.next /\ transcoder.wav_files[i] = SegmentDuration
    /\ \E i \in 1..Len(transcoder.wav_files) :
          /\ i < transcoder.next
          /\ transcoder.wav_files[i] > 2 * SegmentDuration
          /\ Len(SegmentsOf(transcoder.wav_files[i])) = 3

\* C35: every chunk the segmenter produces has a character count (its
\* sentences joined by single spaces) not exceeding the budget, except a
\* chunk of a single sentence that alone exceeds the budget.
C35_ChunksWithinBudget ==
    segmenter.state = "done" =>
        \A i \in 1..Len(segmenter.text_chunks) :
            LET c == segmenter.text_chunks[i]
            IN \/ c.char_count <= MaxChunkSize
               \/ Len(c.sentences) = 1 /\ Len(c.sentences[1]) > MaxChunkSize

\* A text has been packed into a chunk of several sentences that fills the
\* budget exactly and a chunk of one sentence longer than the budget.
C35_Witness ==
    /\ segmenter.state = "done"
    /\ \E i \in 1..Len(segmenter.text_chunks) :
          /\ Len(segmenter.text_chunks[i].sentences) > 1
          /\ segmenter.text_chunks[i].char_count = MaxChunkSize
    /\ \E i \in 1..Len(segmenter.text_chunks) :
          segmenter.text_chunks[i].char_count > MaxChunkSize

\* The sentences of the chunks, one chunk after the other.
RECURSIVE Flatten(_)
Flatten(list) ==
    IF list = << >> THEN << >> ELSE Head(list).sentences \o Flatten(Tail(list))

\* C36: the chunks are numbered 0, 1, ..., n-1 without gaps, and their
\* sentences taken in seq order are exactly the input sentences in document
\* order: none lost, duplicated or reordered.
C36_ChunksPreserveTheText ==
    segmenter.state = "done" =>
        /\ \A i \in 1..Len(segmenter.text_chunks) :
              segmenter.text_chunks[i].seq = i - 1
        /\ Flatten(segmenter.text_chunks) = segmenter.sentences

\* A text of four sentences, two of them equal, has been packed into three
\* chunks or more.
C36_Witness ==
    /\ segmenter.state = "done"
    /\ Len(segmenter.sentences) = MaxSentences
    /\ Len(segmenter.text_chunks) >= 3
    /\ \E i \in 1..MaxSentences : \E j \in 1..MaxSentences :
          i # j /\ segmenter.sentences[i] = segmenter.sentences[j]

\* C37: the segmenter starts a new chunk before a sentence only if
\* appending that sentence, with its separating space, to the current
\* chunk would make the chunk's character count exceed the budget.
C37_NewChunkOnlyWhenOverBudget ==
    \A st \in segmenter.starts :
        Len(Join(Append(st.closed, segmenter.sentences[st.at]))) > MaxChunkSize

\* C38: a user-service call returns to its caller only the response whose
\* operation_id is that of the caller's own request, or else the timeout
\* failure; never the response to another caller's request.
C38_OnlyTheOwnResponse ==
    \A c \in Callers :
        userq.callers[c].state = "returned" =>
            \/ userq.callers[c].result = "response" /\ userq.callers[c].response = c
            \/ userq.callers[c].result = "timeout"

\* A caller has returned its own response after a poll that gave it
\* nothing or the response of another caller, and another caller has
\* returned the timeout failure.
C38_Witness ==
    \E c \in Callers : \E d \in Callers \ {c} :
        /\ userq.callers[c].result = "response"
        /\ userq.callers[c].missed
        /\ userq.callers[d].result = "timeout"

\* C39: with several callers waiting on the shared response list, a caller
\* whose request was answered within the timeout, and who polled the list
\* after that and before the timeout passed, receives the answer and not
\* the timeout failure.
C39_AnsweredCallerGetsTheAnswer ==
    \A c \in Callers :
        ~(userq.callers[c].result = "timeout" /\ userq.callers[c].missed)

\* The response to operation id is on the response list or in the hands
\* of a caller that will put it back.
OnResponseList(id) ==
    \/ \E i \in 1..Len(userq.responses) : userq.responses[i] = id
    \/ \E c \in Callers : userq.callers[c].held = id

\* C40: every response pushed to the shared response list is eventually
\* removed from it, also when its caller has already timed out.
C40_ResponsesAreRemoved ==
    \A id \in Callers : OnResponseList(id) ~> ~OnResponseList(id)

====
